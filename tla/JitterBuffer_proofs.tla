------------------------ MODULE JitterBuffer_proofs ------------------------
(***************************************************************************)
(* Proofs about JitterBuffer, for every capacity, depth, modulus and       *)
(* network.                                                                *)
(***************************************************************************)
EXTENDS JitterBuffer, SequenceTheorems, TLAPS

-----------------------------------------------------------------------------
(* The operators on the buffer. *)

\* Sequence numbers are comparable, and stay below the modulus.
LEMMA SeqType == ASSUME NEW n \in Packet PROVE seq(n) \in 0 .. Modulus - 1
<1>1. n \in Nat
  BY JitterAssumption DEF Packet
<1> QED
  BY <1>1, JitterAssumption DEF seq

\* Inserting at position i moves what was there, and all after it, back by one.
LEMMA InsertedProperties ==
  ASSUME buffer \in Seq(Packet), NEW n \in Packet, NEW i \in 1 .. Len(buffer) + 1
  PROVE  /\ Inserted(n, i) \in Seq(Packet)
         /\ Len(Inserted(n, i)) = Len(buffer) + 1
         /\ \A j \in 1 .. Len(buffer) + 1 :
              Inserted(n, i)[j] = IF j < i THEN buffer[j]
                                  ELSE IF j = i THEN n ELSE buffer[j - 1]
<1> DEFINE front == SubSeq(buffer, 1, i - 1)
           back == SubSeq(buffer, i, Len(buffer))
<1>0. Len(buffer) \in Nat /\ \A j \in 1 .. Len(buffer) : buffer[j] \in Packet
  OBVIOUS
<1>1. /\ front \in Seq(Packet) /\ Len(front) = i - 1
      /\ \A j \in 1 .. i - 1 : front[j] = buffer[j]
  <2>1. \A j \in 1 .. i - 1 : buffer[j] \in Packet
    BY <1>0
  <2> QED
    BY <1>0, <2>1, SubSeqProperties
<1>2. /\ back \in Seq(Packet) /\ Len(back) = Len(buffer) - i + 1
      /\ \A j \in 1 .. Len(buffer) - i + 1 : back[j] = buffer[i + j - 1]
  <2>1. \A j \in i .. Len(buffer) : buffer[j] \in Packet
    BY <1>0
  <2> QED
    BY <1>0, <2>1, SubSeqProperties
<1>3. <<n>> \in Seq(Packet) /\ Len(<<n>>) = 1 /\ <<n>>[1] = n
  OBVIOUS
<1> DEFINE head == front \o <<n>>
<1>4. /\ head \in Seq(Packet) /\ Len(head) = i
      /\ \A j \in 1 .. i : head[j] = IF j < i THEN buffer[j] ELSE n
  <2>1. /\ head \in Seq(Packet) /\ Len(head) = Len(front) + 1
        /\ \A j \in 1 .. Len(front) + 1 :
             head[j] = IF j <= Len(front) THEN front[j] ELSE <<n>>[j - Len(front)]
    BY <1>1, <1>3, ConcatProperties
  <2> HIDE DEF front, head
  <2> QED
    BY <1>0, <1>1, <1>3, <2>1
<1>5. /\ head \o back \in Seq(Packet)
      /\ Len(head \o back) = Len(head) + Len(back)
      /\ \A j \in 1 .. Len(head) + Len(back) :
           (head \o back)[j] = IF j <= Len(head) THEN head[j]
                               ELSE back[j - Len(head)]
  BY <1>2, <1>4, ConcatProperties
<1>6. Inserted(n, i) = head \o back
  BY DEF Inserted
<1> HIDE DEF head, back
<1> QED
  BY <1>0, <1>2, <1>4, <1>5, <1>6

\* Discarding the first k packets.
LEMMA RestProperties ==
  ASSUME buffer \in Seq(Packet), NEW k \in 0 .. Len(buffer)
  PROVE  /\ SubSeq(buffer, k + 1, Len(buffer)) \in Seq(Packet)
         /\ Len(SubSeq(buffer, k + 1, Len(buffer))) = Len(buffer) - k
         /\ \A j \in 1 .. Len(buffer) - k :
              SubSeq(buffer, k + 1, Len(buffer))[j] = buffer[k + j]
<1>1. Len(buffer) \in Nat /\ \A j \in k + 1 .. Len(buffer) : buffer[j] \in Packet
  OBVIOUS
<1> QED
  BY <1>1, SubSeqProperties

\* Whatever put does with the buffer, it keeps its type and its bound, and the
\* packet is buffered, refused, or takes the place of an evicted one.
LEMMA InsertCounts ==
  ASSUME TypeOK, NEW n \in Packet, NEW i \in 1 .. Len(buffer) + 1, Insert(n, i)
  PROVE  /\ buffer' \in Seq(Packet) /\ Len(buffer') <= Capacity
         /\ refused' \in Nat /\ evicted' \in Nat
         /\ Len(buffer') + refused' + evicted' = Len(buffer) + refused + evicted + 1
<1>1. /\ buffer \in Seq(Packet) /\ Len(buffer) \in Nat /\ Len(buffer) <= Capacity
      /\ refused \in Nat /\ evicted \in Nat /\ Capacity \in Nat \ {0}
  BY JitterAssumption DEF TypeOK
<1>2. CASE Len(buffer) < Capacity
  <2>1. buffer' = Inserted(n, i) /\ refused' = refused /\ evicted' = evicted
    BY <1>1, <1>2 DEF Insert
  <2>2. Inserted(n, i) \in Seq(Packet) /\ Len(Inserted(n, i)) = Len(buffer) + 1
    BY <1>1, InsertedProperties
  <2> QED
    BY <1>1, <1>2, <2>1, <2>2
<1>3. CASE Len(buffer) = Capacity /\ i <= Len(buffer)
  BY <1>1, <1>3 DEF Insert
<1>4. CASE Len(buffer) = Capacity /\ i > Len(buffer)
  <2>1. Tail(buffer) \in Seq(Packet) /\ Len(Tail(buffer)) = Len(buffer) - 1
    <3>1. buffer # <<>>
      BY <1>1, <1>4
    <3> QED
      BY <1>1, <3>1, HeadTailProperties
  <2>2. buffer' = Append(Tail(buffer), n) /\ evicted' = evicted + 1
        /\ refused' = refused
    BY <1>4, <1>1 DEF Insert
  <2>3. buffer' \in Seq(Packet) /\ Len(buffer') = Len(buffer)
    BY <1>1, <2>1, <2>2, AppendProperties
  <2> QED
    BY <1>1, <2>2, <2>3
<1> QED
  BY <1>1, <1>2, <1>3, <1>4

\* What get leaves behind: k packets were discarded, and at most one played.
LEMMA GetCounts ==
  ASSUME TypeOK, get
  PROVE  /\ buffer' \in Seq(Packet) /\ Len(buffer') <= Capacity
         /\ next_seq' \in -1 .. Modulus - 1 /\ last' \in -1 .. Packets - 1
         /\ late' \in Nat /\ lost' \in Nat /\ played' \in Nat
         /\ played' + late' + Len(buffer') = played + late + Len(buffer)
         /\ \E k \in 0 .. Len(buffer) :
              /\ Len(buffer') <= Len(buffer) - k
              /\ \A j \in 1 .. Len(buffer') : buffer'[j] = buffer[k + j]
<1>0. /\ buffer \in Seq(Packet) /\ Len(buffer) \in Nat /\ Len(buffer) <= Capacity
      /\ late \in Nat /\ lost \in Nat /\ played \in Nat /\ Capacity \in Nat
      /\ Target \in Nat \ {0} /\ Modulus \in Nat \ {0} /\ Packets \in Nat
      /\ next_seq \in -1 .. Modulus - 1 /\ last \in -1 .. Packets - 1
  BY JitterAssumption DEF TypeOK
<1> DEFINE Rest(k) == SubSeq(buffer, k + 1, Len(buffer))
           Waits(r) == buffer' = r /\ UNCHANGED <<next_seq, lost, played, last>>
           Gap(r) == /\ buffer' = r /\ UNCHANGED <<played, last>>
                     /\ lost' = lost + 1 /\ next_seq' = (next_seq + 1) % Modulus
           Plays(r) == /\ Len(r) >= Target /\ buffer' = Tail(r)
                       /\ next_seq' = (seq(r[1]) + 1) % Modulus
                       /\ played' = played + 1 /\ last' = r[1] /\ lost' = lost
<1>1. PICK k \in 0 .. Len(buffer) :
        late' = late + k /\ (Waits(Rest(k)) \/ Gap(Rest(k)) \/ Plays(Rest(k)))
  BY DEF get
<1> DEFINE rest == Rest(k)
<1>2. /\ rest \in Seq(Packet) /\ Len(rest) = Len(buffer) - k
      /\ \A j \in 1 .. Len(buffer) - k : rest[j] = buffer[k + j]
  BY <1>0, RestProperties
<1>3. \A x \in Int : x % Modulus \in -1 .. Modulus - 1
  BY <1>0
<1>4. late' \in Nat /\ k \in Nat
  BY <1>0, <1>1
<1> HIDE DEF rest
<1>5. CASE Waits(rest) \/ Gap(rest)
  <2>1. buffer' = rest /\ played' = played /\ last' = last
    BY <1>5
  <2>2. next_seq' \in -1 .. Modulus - 1 /\ lost' \in Nat
    <3>1. CASE Waits(rest)
      BY <1>0, <3>1
    <3>2. CASE Gap(rest)
      <4>1. next_seq + 1 \in Int /\ lost \in Nat
        BY <1>0
      <4> QED
        BY <1>3, <3>2, <4>1
    <3> QED
      BY <1>5, <3>1, <3>2
  <2>3. buffer' \in Seq(Packet) /\ Len(buffer') <= Capacity
    BY <1>0, <1>2, <1>4, <2>1
  <2>4. played' + late' + Len(buffer') = played + late + Len(buffer)
    <3>1. late' = late + k
      BY <1>1
    <3>2. Len(buffer') = Len(buffer) - k
      BY <1>2, <2>1
    <3>3. \A p, l, d, b \in Nat : p + (l + d) + (b - d) = p + l + b
      OBVIOUS
    <3> QED
      BY <1>0, <1>4, <2>1, <3>1, <3>2, <3>3
  <2>5. /\ Len(buffer') <= Len(buffer) - k
        /\ \A j \in 1 .. Len(buffer') : buffer'[j] = buffer[k + j]
    BY <1>0, <1>2, <1>4, <2>1
  <2> QED
    BY <1>0, <1>1, <1>4, <2>1, <2>2, <2>3, <2>4, <2>5
<1>6. CASE Plays(rest)
  <2>1. rest # <<>> /\ rest[1] \in Packet /\ Len(rest) \in Nat \ {0}
    BY <1>0, <1>2, <1>6
  <2>2. /\ buffer' \in Seq(Packet) /\ Len(buffer') = Len(rest) - 1
        /\ \A j \in 1 .. Len(buffer') : buffer'[j] = rest[j + 1]
    <3>1. /\ Tail(rest) \in Seq(Packet) /\ Len(Tail(rest)) = Len(rest) - 1
          /\ \A j \in 1 .. Len(Tail(rest)) : Tail(rest)[j] = rest[j + 1]
      BY <1>2, <2>1, HeadTailProperties
    <3> QED
      BY <1>6, <3>1
  <2>3. next_seq' \in -1 .. Modulus - 1
    <3>1. seq(rest[1]) \in Int
      BY <2>1, SeqType
    <3> QED
      BY <1>3, <1>6, <3>1
  <2>4. last' \in -1 .. Packets - 1
    BY <1>0, <1>6, <2>1 DEF Packet
  <2>5. played' \in Nat /\ lost' \in Nat
    BY <1>0, <1>6
  <2>6. played' + late' + Len(buffer') = played + late + Len(buffer)
    <3>1. late' = late + k
      BY <1>1
    <3>2. played' = played + 1
      BY <1>6
    <3>3. Len(buffer') = Len(buffer) - k - 1
      BY <1>0, <1>2, <1>4, <2>2
    <3>4. \A p, l, d, b \in Nat : (p + 1) + (l + d) + (b - d - 1) = p + l + b
      OBVIOUS
    <3> QED
      BY <1>0, <1>4, <3>1, <3>2, <3>3, <3>4
  <2>7. Len(buffer') <= Capacity
    BY <1>0, <1>2, <1>4, <2>1, <2>2
  <2>8. /\ k + 1 \in 0 .. Len(buffer)
        /\ Len(buffer') <= Len(buffer) - (k + 1)
    BY <1>0, <1>2, <1>4, <2>1, <2>2
  <2>9. ASSUME NEW j \in 1 .. Len(buffer') PROVE buffer'[j] = buffer[(k + 1) + j]
    <3>1. j + 1 \in 1 .. Len(buffer) - k /\ k + (j + 1) = (k + 1) + j
      BY <1>0, <1>2, <1>4, <2>1, <2>2
    <3> QED
      BY <1>2, <2>2, <3>1
  <2> QED
    BY <1>4, <2>2, <2>3, <2>4, <2>5, <2>6, <2>7, <2>8, <2>9
<1> QED
  BY <1>1, <1>5, <1>6 DEF rest

-----------------------------------------------------------------------------
(* The counters. *)

\* TypeOK with one conjunct for each counter, as the provers want it.
Counters ==
  /\ received \in Nat /\ played \in Nat /\ lost \in Nat /\ late \in Nat
  /\ duplicate \in Nat /\ refused \in Nat /\ evicted \in Nat /\ cleared \in Nat

\* What TypeOK says of the counters.
LEMMA CountersType == TypeOK => Counters
  BY DEF TypeOK, Counters

\* One more copy of a packet is within the bound of the network.
LEMMA ArrivesType ==
  ASSUME TypeOK, NEW n \in Packet, Arrives(n)
  PROVE  sent' \in 0 .. Packets /\ arrived' \in [Packet -> 0 .. Copies]
<1>1. arrived[n] + 1 \in 0 .. Copies
  BY JitterAssumption DEF TypeOK, Arrives
<1> QED
  BY <1>1 DEF TypeOK, Arrives

\* A packet given to put is received once, and is buffered, refused, a
\* duplicate, or takes the place of an evicted one.
LEMMA PutCounts ==
  ASSUME TypeOK, NEW n \in Packet, put(n)
  PROVE  /\ buffer' \in Seq(Packet) /\ Len(buffer') <= Capacity
         /\ next_seq' \in -1 .. Modulus - 1
         /\ received' = received + 1
         /\ duplicate' \in Nat /\ refused' \in Nat /\ evicted' \in Nat
         /\ Len(buffer') + refused' + evicted' + duplicate'
              = Len(buffer) + refused + evicted + duplicate + 1
<1>0. /\ buffer \in Seq(Packet) /\ Len(buffer) \in Nat /\ Len(buffer) <= Capacity
      /\ next_seq \in -1 .. Modulus - 1
  BY DEF TypeOK
<1>1. refused \in Nat /\ evicted \in Nat /\ duplicate \in Nat
  BY CountersType DEF Counters
<1>2. next_seq' \in -1 .. Modulus - 1
  <2>1. seq(n) \in 0 .. Modulus - 1
    BY SeqType
  <2> QED
    BY <1>0, <2>1, JitterAssumption DEF put, Expected
<1>3. CASE /\ duplicate' = duplicate + 1
           /\ UNCHANGED <<buffer, refused, evicted>>
  BY <1>0, <1>1, <1>2, <1>3 DEF put
<1>4. CASE /\ \E i \in 1 .. Len(buffer) + 1 : Place(n, i) /\ Insert(n, i)
           /\ UNCHANGED duplicate
  <2>1. PICK i \in 1 .. Len(buffer) + 1 : Insert(n, i)
    BY <1>4
  <2>2. /\ buffer' \in Seq(Packet) /\ Len(buffer') <= Capacity
        /\ refused' \in Nat /\ evicted' \in Nat
        /\ Len(buffer') + refused' + evicted' = Len(buffer) + refused + evicted + 1
    BY <2>1, InsertCounts
  <2>3. duplicate' = duplicate /\ Len(buffer') \in Nat
    BY <1>4, <2>2
  <2> QED
    BY <1>0, <1>1, <1>2, <2>2, <2>3 DEF put
<1> QED
  BY <1>3, <1>4 DEF put

\* TypeOK is inductive.
LEMMA TypeStep == TypeOK /\ [Next]_vars => TypeOK'
<1> SUFFICES ASSUME TypeOK, [Next]_vars PROVE TypeOK'
  OBVIOUS
<1> USE JitterAssumption
<1>0. Counters
  BY CountersType
<1>1. CASE Send
  BY <1>1 DEF Send, TypeOK, history
<1>2. CASE get
  <2>1. UNCHANGED <<network, received, duplicate, history>>
    BY <1>2 DEF get
  <2>2. /\ buffer' \in Seq(Packet) /\ Len(buffer') <= Capacity
        /\ next_seq' \in -1 .. Modulus - 1 /\ last' \in -1 .. Packets - 1
        /\ late' \in Nat /\ lost' \in Nat /\ played' \in Nat
    BY <1>2, GetCounts
  <2> QED
    BY <2>1, <2>2 DEF TypeOK, network, history
<1>3. CASE reset
  <2>1. cleared' \in Nat
    BY <1>0, <1>3 DEF reset, TypeOK, Counters
  <2> QED
    BY <1>3, <2>1 DEF reset, TypeOK, network
<1>4. CASE \E n \in Packet : put(n)
  <2>1. PICK n \in Packet : put(n)
    BY <1>4
  <2>2. sent' \in 0 .. Packets /\ arrived' \in [Packet -> 0 .. Copies]
    BY <2>1, ArrivesType DEF put
  <2>3. /\ buffer' \in Seq(Packet) /\ Len(buffer') <= Capacity
        /\ next_seq' \in -1 .. Modulus - 1 /\ received' \in Nat
        /\ duplicate' \in Nat /\ refused' \in Nat /\ evicted' \in Nat
    BY <1>0, <2>1, PutCounts DEF Counters
  <2>4. UNCHANGED <<played, lost, late, cleared, last>>
    BY <2>1 DEF put
  <2> QED
    BY <2>2, <2>3, <2>4 DEF TypeOK
<1>5. CASE \E n \in Packet : dtmf(n)
  <2>1. PICK n \in Packet : dtmf(n)
    BY <1>5
  <2>2. sent' \in 0 .. Packets /\ arrived' \in [Packet -> 0 .. Copies]
    BY <2>1, ArrivesType DEF dtmf
  <2> QED
    BY <2>1, <2>2 DEF dtmf, TypeOK, history
<1>6. CASE UNCHANGED vars
  BY <1>6 DEF vars, network, history, TypeOK
<1> QED
  BY <1>1, <1>2, <1>3, <1>4, <1>5, <1>6 DEF Next

\* The initial state is of the right type.
LEMMA TypeInit == Init => TypeOK
  BY JitterAssumption DEF Init, TypeOK, Packet

\* The deque never exceeds its capacity, and every variable keeps its type.
THEOREM TypeCorrect == Spec => []TypeOK
  BY TypeInit, TypeStep, PTL DEF Spec

\* Every step moves a packet from one account to another, or enters a received
\* one: the counters of put, get and reset keep adding up.
LEMMA ConservationStep ==
  TypeOK /\ Conservation /\ [Next]_vars => Conservation'
<1> SUFFICES ASSUME TypeOK, Conservation, [Next]_vars PROVE Conservation'
  OBVIOUS
<1>0. Counters /\ Len(buffer) \in Nat
  BY CountersType DEF TypeOK
<1>1. CASE UNCHANGED <<buffer, received, played, late, duplicate, history>>
  BY <1>1 DEF Conservation, history
<1>2. CASE get
  <2>1. UNCHANGED <<received, duplicate, refused, evicted, cleared>>
    BY <1>2 DEF get, history
  <2>2. /\ played' + late' + Len(buffer') = played + late + Len(buffer)
        /\ late' \in Nat /\ played' \in Nat /\ Len(buffer') \in Nat
    BY <1>2, GetCounts
  <2>3. PICK b \in Nat : b = Len(buffer)
    BY <1>0
  <2>4. PICK p \in Nat, l \in Nat, c \in Nat :
          p = played' /\ l = late' /\ c = Len(buffer')
    BY <2>2
  <2>5. p + l + c = played + late + b
    BY <2>2, <2>3, <2>4
  <2>6. received = played + late + duplicate + b + refused + evicted + cleared
    BY <2>3 DEF Conservation
  <2>7. received = p + l + duplicate + c + refused + evicted + cleared
    BY <1>0, <2>5, <2>6 DEF Counters
  <2> QED
    BY <2>1, <2>4, <2>7 DEF Conservation
<1>3. CASE reset
  BY <1>0, <1>3 DEF reset, Conservation, Counters
<1>4. CASE \E n \in Packet : put(n)
  <2>1. PICK n \in Packet : put(n)
    BY <1>4
  <2>2. UNCHANGED <<played, late, cleared>>
    BY <2>1 DEF put
  <2>3. /\ received' = received + 1
        /\ duplicate' \in Nat /\ refused' \in Nat /\ evicted' \in Nat
        /\ Len(buffer') \in Nat
        /\ Len(buffer') + refused' + evicted' + duplicate'
             = Len(buffer) + refused + evicted + duplicate + 1
    BY <2>1, PutCounts
  <2>4. PICK b \in Nat : b = Len(buffer)
    BY <1>0
  <2>5. PICK d \in Nat, r \in Nat, e \in Nat, c \in Nat :
          d = duplicate' /\ r = refused' /\ e = evicted' /\ c = Len(buffer')
    BY <2>3
  <2>6. c + r + e + d = b + refused + evicted + duplicate + 1
    BY <2>3, <2>4, <2>5
  <2>7. received = played + late + duplicate + b + refused + evicted + cleared
    BY <2>4 DEF Conservation
  <2>8. received + 1 = played + late + d + c + r + e + cleared
    BY <1>0, <2>6, <2>7 DEF Counters
  <2> QED
    BY <2>2, <2>3, <2>5, <2>8 DEF Conservation
<1>5. CASE Send \/ (\E n \in Packet : dtmf(n)) \/ UNCHANGED vars
  BY <1>1, <1>5 DEF Send, dtmf, vars
<1> QED
  BY <1>2, <1>3, <1>4, <1>5 DEF Next

\* Whatever the network delays, repeats, reorders or loses, and however get and
\* reset interleave with put, every packet received is accounted for.
THEOREM EveryPacketCounted == Spec => []Conservation
<1>1. Init => Conservation
  BY DEF Init, Conservation
<1> QED
  BY <1>1, TypeInit, TypeStep, ConservationStep, PTL DEF Spec

-----------------------------------------------------------------------------
(* The order of the buffer. *)

\* Sorted, said of any sequence of packets.
Increasing(s) == \A i, j \in 1 .. Len(s) : i < j => seq(s[i]) < seq(s[j])

\* A new sequence number has its place in a sorted buffer: all before it are
\* smaller, all from there on larger.
LEMMA PlaceSplits ==
  ASSUME TypeOK, Sorted, NEW n \in Packet, NEW i \in 1 .. Len(buffer) + 1,
         Place(n, i), \A j \in DOMAIN buffer : seq(buffer[j]) # seq(n)
  PROVE  /\ \A j \in 1 .. Len(buffer) : j < i => seq(buffer[j]) < seq(n)
         /\ \A j \in 1 .. Len(buffer) : j >= i => seq(n) < seq(buffer[j])
<1>0. /\ buffer \in Seq(Packet) /\ Len(buffer) \in Nat
      /\ DOMAIN buffer = 1 .. Len(buffer)
  BY DEF TypeOK
<1>1. seq(n) \in Int /\ \A j \in 1 .. Len(buffer) : seq(buffer[j]) \in Int
  <2>1. \A j \in 1 .. Len(buffer) : buffer[j] \in Packet
    BY <1>0
  <2>2. \A m \in Packet : seq(m) \in Int
    BY SeqType
  <2> QED
    BY <2>1, <2>2
<1>2. ASSUME NEW j \in 1 .. Len(buffer), j < i PROVE seq(buffer[j]) < seq(n)
  <2>1. seq(buffer[j]) <= seq(n)
    BY <1>0, <1>2 DEF Place
  <2>2. seq(buffer[j]) # seq(n)
    BY <1>0
  <2> QED
    BY <1>1, <2>1, <2>2
<1>3. ASSUME NEW j \in 1 .. Len(buffer), j >= i PROVE seq(n) < seq(buffer[j])
  <2>1. i \in 1 .. Len(buffer) /\ seq(n) < seq(buffer[i])
    <3>1. i \in 1 .. Len(buffer) /\ i <= Len(buffer)
      BY <1>0, <1>3
    <3>2. seq(buffer[i]) > seq(n)
      BY <3>1 DEF Place
    <3> QED
      BY <1>1, <3>1, <3>2
  <2>2. i = j \/ seq(buffer[i]) < seq(buffer[j])
    <3>1. i = j \/ i < j
      BY <1>0, <1>3
    <3> QED
      BY <1>0, <2>1, <3>1 DEF Sorted
  <2> QED
    BY <1>1, <2>1, <2>2
<1> QED
  BY <1>2, <1>3

\* What put leaves in the deque is sorted, also where a full deque drops its
\* first packet.
LEMMA InsertSorts ==
  ASSUME TypeOK, Sorted, NEW n \in Packet, NEW i \in 1 .. Len(buffer) + 1,
         Place(n, i), \A j \in DOMAIN buffer : seq(buffer[j]) # seq(n),
         Insert(n, i)
  PROVE  Increasing(buffer')
<1>0. /\ buffer \in Seq(Packet) /\ Len(buffer) \in Nat
      /\ DOMAIN buffer = 1 .. Len(buffer)
      /\ Capacity \in Nat \ {0} /\ Len(buffer) <= Capacity
  BY JitterAssumption DEF TypeOK
<1>1. /\ \A j \in 1 .. Len(buffer) : j < i => seq(buffer[j]) < seq(n)
      /\ \A j \in 1 .. Len(buffer) : j >= i => seq(n) < seq(buffer[j])
  BY PlaceSplits
<1>2. \A p, q \in 1 .. Len(buffer) : p < q => seq(buffer[p]) < seq(buffer[q])
  BY <1>0 DEF Sorted
<1>3. CASE buffer' = Inserted(n, i)
  <2> DEFINE s == Inserted(n, i)
  <2>1. /\ Len(s) = Len(buffer) + 1
        /\ \A j \in 1 .. Len(buffer) + 1 :
             s[j] = IF j < i THEN buffer[j]
                    ELSE IF j = i THEN n ELSE buffer[j - 1]
    BY <1>0, InsertedProperties
  <2> HIDE DEF s
  <2> SUFFICES ASSUME NEW p \in 1 .. Len(buffer) + 1,
                      NEW q \in 1 .. Len(buffer) + 1, p < q
               PROVE  seq(s[p]) < seq(s[q])
    BY <1>3, <2>1 DEF Increasing, s
  <2>2. CASE q < i
    <3>1. s[p] = buffer[p] /\ s[q] = buffer[q]
      BY <1>0, <2>1, <2>2
    <3>2. p \in 1 .. Len(buffer) /\ q \in 1 .. Len(buffer)
      BY <1>0, <2>2
    <3> QED
      BY <1>2, <3>1, <3>2
  <2>3. CASE q = i
    <3>1. s[p] = buffer[p] /\ s[q] = n
      BY <1>0, <2>1, <2>3
    <3>2. p \in 1 .. Len(buffer) /\ p < i
      BY <1>0, <2>3
    <3> QED
      BY <1>1, <3>1, <3>2
  <2>4. CASE p = i
    <3>1. s[p] = n /\ s[q] = buffer[q - 1]
      BY <1>0, <2>1, <2>4
    <3>2. q - 1 \in 1 .. Len(buffer) /\ q - 1 >= i
      BY <1>0, <2>4
    <3> QED
      BY <1>1, <3>1, <3>2
  <2>5. CASE p < i /\ q > i
    <3>1. s[p] = buffer[p] /\ s[q] = buffer[q - 1]
      BY <1>0, <2>1, <2>5
    <3>2. p \in 1 .. Len(buffer) /\ q - 1 \in 1 .. Len(buffer) /\ p < q - 1
      BY <1>0, <2>5
    <3> QED
      BY <1>2, <3>1, <3>2
  <2>6. CASE p > i
    <3>1. s[p] = buffer[p - 1] /\ s[q] = buffer[q - 1]
      BY <1>0, <2>1, <2>6
    <3>2. p - 1 \in 1 .. Len(buffer) /\ q - 1 \in 1 .. Len(buffer)
          /\ p - 1 < q - 1
      BY <1>0, <2>6
    <3> QED
      BY <1>2, <3>1, <3>2
  <2> QED
    BY <1>0, <2>2, <2>3, <2>4, <2>5, <2>6
<1>4. CASE UNCHANGED buffer
  BY <1>2, <1>4 DEF Increasing
<1>5. CASE /\ Len(buffer) = Capacity /\ i > Len(buffer)
           /\ buffer' = Append(Tail(buffer), n)
  <2> DEFINE t == Tail(buffer)
  <2>1. /\ t \in Seq(Packet) /\ Len(t) = Len(buffer) - 1
        /\ \A j \in 1 .. Len(t) : t[j] = buffer[j + 1]
    <3>1. buffer # <<>>
      BY <1>0, <1>5
    <3> QED
      BY <1>0, <3>1, HeadTailProperties
  <2> HIDE DEF t
  <2>2. /\ Len(Append(t, n)) = Len(buffer)
        /\ \A j \in 1 .. Len(buffer) :
             Append(t, n)[j] = IF j < Len(buffer) THEN buffer[j + 1] ELSE n
    <3>1. /\ Len(Append(t, n)) = Len(t) + 1
          /\ \A j \in 1 .. Len(t) : Append(t, n)[j] = t[j]
          /\ Append(t, n)[Len(t) + 1] = n
      BY <2>1, AppendProperties
    <3> QED
      BY <1>0, <2>1, <3>1
  <2> SUFFICES ASSUME NEW p \in 1 .. Len(buffer), NEW q \in 1 .. Len(buffer),
                      p < q
               PROVE  seq(Append(t, n)[p]) < seq(Append(t, n)[q])
    BY <1>5, <2>2 DEF Increasing, t
  <2>3. /\ Append(t, n)[p] = buffer[p + 1] /\ p + 1 \in 1 .. Len(buffer)
        /\ p + 1 < i
    BY <1>0, <1>5, <2>2
  <2>4. CASE q = Len(buffer)
    <3>1. Append(t, n)[q] = n
      BY <1>0, <2>2, <2>4
    <3> QED
      BY <1>1, <2>3, <3>1
  <2>5. CASE q < Len(buffer)
    <3>1. Append(t, n)[q] = buffer[q + 1] /\ q + 1 \in 1 .. Len(buffer)
          /\ p + 1 < q + 1
      BY <1>0, <2>2, <2>5
    <3> QED
      BY <1>2, <2>3, <3>1
  <2>6. q = Len(buffer) \/ q < Len(buffer)
    <3>1. Len(buffer) \in Nat
      BY <1>0
    <3> QED
      BY <3>1
  <2> QED
    BY <2>4, <2>5, <2>6
<1> QED
  BY <1>0, <1>3, <1>4, <1>5 DEF Insert

\* Sorted is inductive: only put inserts, and get and reset keep a part of the
\* buffer from some packet to the last.
LEMMA SortedStep == TypeOK /\ TypeOK' /\ Sorted /\ [Next]_vars => Sorted'
<1> SUFFICES ASSUME TypeOK, TypeOK', Sorted, [Next]_vars PROVE Sorted'
  OBVIOUS
<1>0. /\ Len(buffer) \in Nat /\ DOMAIN buffer = 1 .. Len(buffer)
      /\ Len(buffer') \in Nat /\ DOMAIN buffer' = 1 .. Len(buffer')
  <2>1. buffer \in Seq(Packet)
    BY DEF TypeOK
  <2>2. buffer' \in Seq(Packet)
    BY DEF TypeOK, Packet
  <2> QED
    BY <2>1, <2>2
<1>1. ASSUME Increasing(buffer') PROVE Sorted'
  BY <1>0, <1>1 DEF Sorted, Increasing, seq
<1>2. \A p, q \in 1 .. Len(buffer) : p < q => seq(buffer[p]) < seq(buffer[q])
  BY <1>0 DEF Sorted
<1>3. CASE UNCHANGED buffer
  BY <1>3 DEF Sorted, seq
<1>4. CASE get
  <2>1. PICK k \in 0 .. Len(buffer) :
          /\ Len(buffer') <= Len(buffer) - k
          /\ \A j \in 1 .. Len(buffer') : buffer'[j] = buffer[k + j]
    BY <1>4, GetCounts
  <2> SUFFICES ASSUME NEW p \in 1 .. Len(buffer'), NEW q \in 1 .. Len(buffer'),
                      p < q
               PROVE  seq(buffer'[p]) < seq(buffer'[q])
    BY <1>1 DEF Increasing
  <2>2. /\ k + p \in 1 .. Len(buffer) /\ k + q \in 1 .. Len(buffer)
        /\ k + p < k + q
    BY <1>0, <2>1
  <2> QED
    BY <1>2, <2>1, <2>2
<1>5. CASE reset
  <2>1. Len(buffer') = 0
    BY <1>5 DEF reset
  <2> QED
    BY <1>1, <2>1 DEF Increasing
<1>6. CASE \E n \in Packet : put(n)
  <2>1. PICK n \in Packet : put(n)
    BY <1>6
  <2>2. CASE /\ \A j \in DOMAIN buffer : seq(buffer[j]) # seq(n)
             /\ \E i \in 1 .. Len(buffer) + 1 : Place(n, i) /\ Insert(n, i)
    BY <1>1, <2>2, InsertSorts
  <2> QED
    BY <1>3, <2>1, <2>2 DEF put
<1>7. CASE Send \/ (\E n \in Packet : dtmf(n)) \/ UNCHANGED vars
  BY <1>3, <1>7 DEF Send, dtmf, vars
<1> QED
  BY <1>4, <1>5, <1>6, <1>7 DEF Next

\* Whatever order packets arrive in, and however get and reset interleave with
\* put, the buffer holds no sequence number twice and is sorted by them.
THEOREM BufferSorted == Spec => []Sorted
<1>1. Init => Sorted
  BY DEF Init, Sorted
<1> QED
  BY <1>1, TypeInit, TypeStep, SortedStep, PTL DEF Spec

-----------------------------------------------------------------------------
(* Order of play and losses, while no packet buffered is half a turn of the *)
(* sequence numbers older than the last one sent.                           *)

Fresh == \A j \in DOMAIN buffer : 2 * (sent - buffer[j]) < Modulus

\* Sequence numbers are only compared by their distance modulo Modulus, and
\* multiples of Modulus do not change it.
LEMMA Shifted == \A q, a \in Int : (a - Modulus * q) % Modulus = a % Modulus
<1>0. Modulus \in Nat \ {0}
  BY JitterAssumption
<1>1. \A m \in Nat \ {0} : \A a \in Int :
        /\ a % m = a - m * (a \div m)
        /\ a \div m \in Int /\ a % m \in 0 .. m - 1
  OBVIOUS
<1>2. \A m \in Nat \ {0} : \A q \in Int : \A r \in 0 .. m - 1 : (m * q + r) % m = r
  OBVIOUS
<1> SUFFICES ASSUME NEW q \in Int, NEW a \in Int
             PROVE  (a - Modulus * q) % Modulus = a % Modulus
  OBVIOUS
<1> DEFINE d == a \div Modulus
           r == a % Modulus
<1>3. a = Modulus * d + r /\ d \in Int /\ r \in 0 .. Modulus - 1
  BY <1>0, <1>1
<1> HIDE DEF d, r
<1>4. a - Modulus * q = Modulus * (d - q) + r /\ d - q \in Int
  BY <1>0, <1>3
<1>5. (Modulus * (d - q) + r) % Modulus = r
  BY <1>0, <1>2, <1>3, <1>4
<1> QED
  BY <1>4, <1>5 DEF r

\* The distance get computes between two packets is the number of packets sent
\* between them, modulo Modulus.
LEMMA SeqDistance ==
  \A n, m \in Nat : /\ (seq(n) - seq(m)) % Modulus = (n - m) % Modulus
                    /\ (seq(n) + 1) % Modulus = seq(n + 1)
<1>0. Modulus \in Nat \ {0} /\ First \in 0 .. Modulus - 1
  BY JitterAssumption
<1> SUFFICES ASSUME NEW n \in Nat, NEW m \in Nat
             PROVE  /\ (seq(n) - seq(m)) % Modulus = (n - m) % Modulus
                    /\ (seq(n) + 1) % Modulus = seq(n + 1)
  OBVIOUS
<1>1. \A w \in Nat \ {0} : \A a \in Int : a % w = a - w * (a \div w) /\ a \div w \in Int
  OBVIOUS
<1> DEFINE p == (First + n) \div Modulus
           q == (First + m) \div Modulus
<1>2. seq(n) = First + n - Modulus * p /\ p \in Int
  BY <1>0, <1>1 DEF seq
<1>3. seq(m) = First + m - Modulus * q /\ q \in Int
  BY <1>0, <1>1 DEF seq
<1> HIDE DEF p, q
<1>4. seq(n) - seq(m) = (n - m) - Modulus * (p - q) /\ p - q \in Int
  BY <1>0, <1>2, <1>3
<1>5. seq(n) + 1 = (First + (n + 1)) - Modulus * p
  BY <1>0, <1>2
<1>6. n - m \in Int /\ p - q \in Int /\ First + (n + 1) \in Int /\ p \in Int
  BY <1>0, <1>2, <1>4
<1>7. ((n - m) - Modulus * (p - q)) % Modulus = (n - m) % Modulus
  BY ONLY <1>6, Shifted, Zenon
<1>8. ((First + (n + 1)) - Modulus * p) % Modulus = (First + (n + 1)) % Modulus
  BY ONLY <1>6, Shifted, Zenon
<1> QED
  BY <1>4, <1>5, <1>7, <1>8 DEF seq

\* Between packets less than a turn apart, the distance tells which was sent first.
LEMMA SeqApart ==
  \A n, m \in Nat :
    /\ n <= m /\ m - n < Modulus => (seq(m) - seq(n)) % Modulus = m - n
    /\ n < m /\ m - n < Modulus => (seq(n) - seq(m)) % Modulus = Modulus - (m - n)
<1>0. Modulus \in Nat \ {0}
  BY JitterAssumption
<1>1. \A w \in Nat \ {0} : \A d \in 0 .. w - 1 : d % w = d
  OBVIOUS
<1>2. \A w \in Nat \ {0} : \A d \in 1 .. w - 1 : (-d) % w = w - d
  OBVIOUS
<1> SUFFICES ASSUME NEW n \in Nat, NEW m \in Nat
             PROVE  /\ n <= m /\ m - n < Modulus
                         => (seq(m) - seq(n)) % Modulus = m - n
                    /\ n < m /\ m - n < Modulus
                         => (seq(n) - seq(m)) % Modulus = Modulus - (m - n)
  OBVIOUS
<1>3. ASSUME n <= m, m - n < Modulus PROVE (m - n) % Modulus = m - n
  BY <1>0, <1>1, <1>3
<1>4. ASSUME n < m, m - n < Modulus PROVE (n - m) % Modulus = Modulus - (m - n)
  <2>1. m - n \in 1 .. Modulus - 1 /\ n - m = -(m - n)
    BY <1>0, <1>4
  <2> QED
    BY <1>0, <1>2, <2>1
<1> QED
  BY <1>3, <1>4, SeqDistance

\* What get does: the packets it discards are old, and then it waits for more,
\* reports the expected packet lost, or plays the first one left.
LEMMA GetCases ==
  ASSUME TypeOK, get
  PROVE  \/ UNCHANGED <<next_seq, lost, played, last>>
         \/ \E k \in 0 .. Len(buffer) - 1 :
              /\ \A j \in 1 .. k : Old(buffer[j])
              /\ ~Old(buffer[k + 1])
              /\ \/ /\ Distance(buffer[k + 1]) > 0
                    /\ next_seq' = (next_seq + 1) % Modulus
                    /\ UNCHANGED <<played, last>>
                 \/ /\ Distance(buffer[k + 1]) = 0
                    /\ next_seq' = (seq(buffer[k + 1]) + 1) % Modulus
                    /\ last' = buffer[k + 1] /\ lost' = lost
<1>0. buffer \in Seq(Packet) /\ Len(buffer) \in Nat /\ Target \in Nat \ {0}
  BY JitterAssumption DEF TypeOK
<1> DEFINE Rest(k) == SubSeq(buffer, k + 1, Len(buffer))
           Waits(r) == Len(r) < Target /\ UNCHANGED <<next_seq, lost, played, last>>
           Gap(r) == /\ Len(r) >= Target /\ Distance(r[1]) > 0
                     /\ next_seq' = (next_seq + 1) % Modulus
                     /\ UNCHANGED <<played, last>>
           Plays(r) == /\ Len(r) >= Target /\ Distance(r[1]) = 0
                       /\ next_seq' = (seq(r[1]) + 1) % Modulus
                       /\ last' = r[1] /\ lost' = lost
<1>1. PICK k \in 0 .. Len(buffer) :
        /\ Discards(k)
        /\ Waits(Rest(k)) \/ Gap(Rest(k)) \/ Plays(Rest(k))
  BY DEF get
<1>2. /\ Len(Rest(k)) = Len(buffer) - k
      /\ \A j \in 1 .. Len(buffer) - k : Rest(k)[j] = buffer[k + j]
  BY <1>0, RestProperties
<1> HIDE DEF Rest
<1>3. CASE Waits(Rest(k))
  BY <1>3
<1>4. CASE Gap(Rest(k)) \/ Plays(Rest(k))
  <2>1. k \in 0 .. Len(buffer) - 1 /\ Len(buffer) - k >= Target
    BY <1>0, <1>2, <1>4
  <2>2. Rest(k)[1] = buffer[k + 1]
    BY <1>0, <1>2, <2>1
  <2>3. (\A j \in 1 .. k : Old(buffer[j])) /\ ~Old(buffer[k + 1])
    BY <1>1, <2>1 DEF Discards
  <2> QED
    BY <1>4, <2>1, <2>2, <2>3
<1> QED
  BY <1>1, <1>3, <1>4

\* Every packet put leaves in the buffer was there or is the one that came, and
\* an empty buffer takes the one that came.
LEMMA PutFrom ==
  ASSUME TypeOK, NEW n \in Packet, put(n)
  PROVE  /\ \A j \in DOMAIN buffer' :
              buffer'[j] = n \/ \E i \in DOMAIN buffer : buffer'[j] = buffer[i]
         /\ buffer = <<>> => DOMAIN buffer' # {} /\ \A j \in DOMAIN buffer' : buffer'[j] = n
<1>0. buffer \in Seq(Packet) /\ DOMAIN buffer = 1 .. Len(buffer)
  BY DEF TypeOK
<1>s. Len(buffer) \in Nat /\ Capacity \in Nat \ {0}
  BY <1>0, JitterAssumption
<1>1. CASE \E j \in DOMAIN buffer : seq(buffer[j]) = seq(n)
  <2>1. buffer # <<>>
    BY <1>1
  <2>2. buffer' = buffer
    BY <1>1 DEF put
  <2> QED
    BY <2>1, <2>2
<1>2. CASE \A j \in DOMAIN buffer : seq(buffer[j]) # seq(n)
  <2>1. PICK i \in 1 .. Len(buffer) + 1 : Insert(n, i)
    BY <1>2 DEF put
  <2>2. CASE Len(buffer) < Capacity
    <3>1. buffer' = Inserted(n, i)
      BY <1>s, <2>1, <2>2 DEF Insert
    <3>2. /\ buffer' \in Seq(Packet) /\ Len(buffer') = Len(buffer) + 1
          /\ \A j \in 1 .. Len(buffer) + 1 :
               buffer'[j] = IF j < i THEN buffer[j]
                            ELSE IF j = i THEN n ELSE buffer[j - 1]
      BY <1>0, <3>1, InsertedProperties
    <3>3. DOMAIN buffer' = 1 .. Len(buffer) + 1
      BY <3>2
    <3>4. ASSUME NEW j \in 1 .. Len(buffer) + 1
          PROVE  buffer'[j] = n \/ \E h \in 1 .. Len(buffer) : buffer'[j] = buffer[h]
      <4>1. CASE j < i
        <5>1. j \in 1 .. Len(buffer)
          BY <1>s, <2>1, <4>1
        <5>2. buffer'[j] = buffer[j]
          BY <3>2, <4>1
        <5> QED
          BY ONLY <5>1, <5>2
      <4>2. CASE j > i
        <5>1. j - 1 \in 1 .. Len(buffer) /\ ~(j < i) /\ j # i
          BY <1>s, <2>1, <4>2
        <5>2. buffer'[j] = buffer[j - 1]
          BY <3>2, <5>1
        <5> QED
          BY ONLY <5>1, <5>2
      <4>3. CASE j = i
        BY <3>2, <4>3
      <4> QED
        BY <1>s, <2>1, <4>1, <4>2, <4>3
    <3>5. ASSUME buffer = <<>> PROVE \A j \in DOMAIN buffer' : buffer'[j] = n
      <4>1. Len(buffer) = 0
        BY <3>5
      <4> QED
        BY <3>3, <3>4, <4>1
    <3> QED
      BY <1>0, <3>3, <3>4, <3>5
  <2>3. CASE Len(buffer) = Capacity
    <3>1. buffer # <<>>
      BY <1>s, <1>0, <2>3
    <3>2. CASE buffer' = buffer
      BY <3>1, <3>2
    <3>3. CASE buffer' = Append(Tail(buffer), n)
      <4>1. /\ Tail(buffer) \in Seq(Packet) /\ Len(Tail(buffer)) = Len(buffer) - 1
            /\ \A j \in 1 .. Len(buffer) - 1 : Tail(buffer)[j] = buffer[j + 1]
        BY <1>0, <3>1, HeadTailProperties
      <4>2. /\ buffer' \in Seq(Packet) /\ Len(buffer') = Len(buffer)
            /\ \A j \in 1 .. Len(buffer) - 1 : buffer'[j] = Tail(buffer)[j]
            /\ buffer'[Len(buffer)] = n
        BY <1>s, <1>0, <3>3, <4>1, AppendProperties
      <4>3. DOMAIN buffer' = 1 .. Len(buffer)
        BY <4>2
      <4>4. \A j \in 1 .. Len(buffer) - 1 : j + 1 \in 1 .. Len(buffer)
        BY <1>s
      <4>5. \A j \in 1 .. Len(buffer) : j = Len(buffer) \/ j \in 1 .. Len(buffer) - 1
        BY <1>s
      <4>6. ASSUME NEW j \in 1 .. Len(buffer) - 1 PROVE buffer'[j] = buffer[j + 1]
        BY <4>1, <4>2
      <4>7. \A j \in 1 .. Len(buffer) :
              buffer'[j] = n \/ \E h \in 1 .. Len(buffer) : buffer'[j] = buffer[h]
        BY ONLY <4>2, <4>4, <4>5, <4>6
      <4> QED
        BY <1>0, <3>1, <4>3, <4>7
    <3> QED
      BY <1>s, <2>1, <2>3, <3>2, <3>3 DEF Insert
  <2> QED
    BY <1>s, <2>1, <2>2, <2>3 DEF Insert
<1> QED
  BY <1>1, <1>2

\* Only packets that were sent are buffered.
BufferSent == \A j \in DOMAIN buffer : buffer[j] < sent

\* The packet get expects next is the one after the last played or given up;
\* it may not have been sent yet.  Before the first put nothing is expected.
NextSent ==
  \/ next_seq = -1 /\ last = -1 /\ buffer = <<>>
  \/ \E n \in 0 .. sent : next_seq = seq(n) /\ last < n

\* The packets in the buffer are numbers below Packets.
LEMMA BufferedType ==
  TypeOK => DOMAIN buffer = 1 .. Len(buffer) /\ \A j \in DOMAIN buffer : buffer[j] \in Nat
<1> SUFFICES ASSUME TypeOK
             PROVE  /\ DOMAIN buffer = 1 .. Len(buffer)
                    /\ \A j \in DOMAIN buffer : buffer[j] \in Nat
  OBVIOUS
<1>1. buffer \in Seq(Packet)
  BY DEF TypeOK
<1>2. DOMAIN buffer = 1 .. Len(buffer) /\ \A j \in DOMAIN buffer : buffer[j] \in Packet
  BY <1>1
<1>3. \A n \in Packet : n \in Nat
  BY JitterAssumption DEF Packet
<1> QED
  BY <1>2, <1>3

\* A packet is put in the buffer after it is sent, and none is unsent.
LEMMA SentStep == TypeOK /\ TypeOK' /\ BufferSent /\ [Next]_vars => BufferSent'
<1> SUFFICES ASSUME TypeOK, TypeOK', BufferSent, [Next]_vars PROVE BufferSent'
  OBVIOUS
<1>0. /\ DOMAIN buffer = 1 .. Len(buffer) /\ DOMAIN buffer' = 1 .. Len(buffer')
      /\ Len(buffer) \in Nat /\ Len(buffer') \in Nat
  <2>1. buffer \in Seq(Packet) /\ buffer' \in Seq(Packet)
    BY DEF TypeOK, Packet
  <2> QED
    BY <2>1
<1>1. CASE get
  <2>1. PICK k \in 0 .. Len(buffer) :
          /\ Len(buffer') <= Len(buffer) - k
          /\ \A j \in 1 .. Len(buffer') : buffer'[j] = buffer[k + j]
    BY <1>1, GetCounts
  <2>2. \A j \in 1 .. Len(buffer') : k + j \in 1 .. Len(buffer)
    BY <1>0, <2>1
  <2>3. sent' = sent
    BY <1>1 DEF get, network
  <2> QED
    BY <1>0, <2>1, <2>2, <2>3 DEF BufferSent
<1>2. CASE \E n \in Packet : put(n)
  <2>1. PICK n \in Packet : put(n)
    BY <1>2
  <2>2. n < sent /\ sent' = sent
    BY <2>1 DEF put, Arrives
  <2> QED
    BY <2>1, <2>2, PutFrom DEF BufferSent
<1>3. CASE reset
  BY <1>3 DEF reset, BufferSent
<1>4. CASE Send
  <2>1. \A j \in DOMAIN buffer : buffer[j] \in Nat
    BY BufferedType
  <2>2. sent' = sent + 1 /\ sent \in Nat /\ buffer' = buffer
    BY <1>4 DEF Send, TypeOK
  <2> QED
    BY <2>1, <2>2 DEF BufferSent
<1>5. CASE (\E n \in Packet : dtmf(n)) \/ UNCHANGED vars
  BY <1>5 DEF dtmf, Arrives, vars, network, BufferSent
<1> QED
  BY <1>1, <1>2, <1>3, <1>4, <1>5 DEF Next

\* The expected packet only moves forward.  A gap skips a packet that was sent,
\* because a newer one is buffered and none half a turn older; what is played is
\* at least the expected packet, because an older one would be that old.
LEMMA OrderStep ==
  TypeOK /\ BufferSent /\ Fresh /\ Fresh' /\ NextSent /\ [Next]_vars
    => NextSent' /\ (played' # played => last' > last)
<1> SUFFICES ASSUME TypeOK, BufferSent, Fresh, Fresh', NextSent, [Next]_vars
             PROVE  NextSent' /\ (played' # played => last' > last)
  OBVIOUS
<1>0. /\ sent \in Nat /\ last \in Int /\ Modulus \in Nat \ {0}
      /\ \A n \in Packet : n \in Nat
  BY JitterAssumption DEF TypeOK, Packet
<1>1. CASE UNCHANGED <<next_seq, last, played, buffer>> /\ sent' \in Nat /\ sent' >= sent
  <2>1. \A n \in 0 .. sent : n \in 0 .. sent' /\ seq(n)' = seq(n)
    BY <1>0, <1>1 DEF seq
  <2> QED
    BY <1>1, <2>1 DEF NextSent, seq
<1>2. CASE Send \/ (\E n \in Packet : dtmf(n)) \/ UNCHANGED vars
  BY <1>0, <1>1, <1>2 DEF Send, dtmf, Arrives, vars, network, history
<1>3. CASE reset
  BY <1>3 DEF reset, NextSent
<1>4. CASE \E n \in Packet : put(n)
  <2>1. PICK n \in Packet : put(n)
    BY <1>4
  <2>2. /\ n < sent /\ sent' = sent /\ last' = last /\ played' = played
        /\ next_seq' = Expected(n)
    BY <2>1 DEF put, Arrives
  <2>3. CASE next_seq = -1
    <3>1. last = -1
      <4>1. ASSUME NEW m \in 0 .. sent PROVE seq(m) # -1
        <5>1. First + m \in Int
          BY <1>0, JitterAssumption
        <5>2. \A w \in Nat \ {0} : \A a \in Int : a % w # -1
          OBVIOUS
        <5> QED
          BY <1>0, <5>1, <5>2 DEF seq
      <4> QED
        BY <2>3, <4>1 DEF NextSent
    <3>2. n \in 0 .. sent /\ last < n
      BY <1>0, <2>2, <3>1
    <3> QED
      BY <2>2, <2>3, <3>2 DEF NextSent, Expected, seq
  <2>4. CASE next_seq # -1
    BY <2>2, <2>4 DEF NextSent, Expected, seq
  <2> QED
    BY <2>3, <2>4
<1>5. CASE get
  <2>0. sent' = sent
    BY <1>5 DEF get, network
  <2>1. CASE UNCHANGED <<next_seq, lost, played, last>>
    <3>1. buffer = <<>> => buffer' = <<>>
      <4>1. /\ buffer \in Seq(Packet) /\ buffer' \in Seq(Packet)
            /\ \E k \in 0 .. Len(buffer) : Len(buffer') <= Len(buffer) - k
        BY <1>5, GetCounts DEF TypeOK
      <4> QED
        BY <4>1
    <3> QED
      BY <2>0, <2>1, <3>1 DEF NextSent, seq
  <2>2. ASSUME NEW k \in 0 .. Len(buffer) - 1,
               ~Old(buffer[k + 1]),
               \/ /\ Distance(buffer[k + 1]) > 0
                  /\ next_seq' = (next_seq + 1) % Modulus
                  /\ UNCHANGED <<played, last>>
               \/ /\ Distance(buffer[k + 1]) = 0
                  /\ next_seq' = (seq(buffer[k + 1]) + 1) % Modulus
                  /\ last' = buffer[k + 1]
        PROVE  NextSent' /\ (played' # played => last' > last)
    <3> DEFINE p == buffer[k + 1]
    <3>1. k + 1 \in DOMAIN buffer /\ p \in Nat
      BY <1>0 DEF TypeOK
    <3>2. p < sent /\ 2 * (sent - p) < Modulus
      BY <3>1 DEF BufferSent, Fresh
    <3>3. PICK n \in 0 .. sent : next_seq = seq(n) /\ last < n
      BY <3>1 DEF NextSent
    <3>4. n \in Nat /\ (next_seq + 1) % Modulus = seq(n + 1)
      BY <1>0, <3>3, SeqDistance
    <3>5. Distance(p) = (seq(p) - seq(n)) % Modulus /\ ~(Distance(p) > Modulus \div 2)
      BY <2>2, <3>3 DEF Distance, Old
    <3>6. ASSUME p < n PROVE Distance(p) = Modulus - (n - p) /\ Distance(p) > 0
      <4>1. n - p < Modulus
        BY <1>0, <3>1, <3>2, <3>3
      <4>2. Distance(p) = Modulus - (n - p)
        BY <3>1, <3>4, <3>5, <3>6, <4>1, SeqApart
      <4> HIDE DEF p
      <4> QED
        BY <1>0, <3>1, <3>4, <4>1, <4>2
    <3> HIDE DEF p
    <3>7. CASE Distance(p) > 0 /\ next_seq' = seq(n + 1) /\ UNCHANGED <<played, last>>
      <4>1. n # sent
        <5>1. Modulus \div 2 \in Nat /\ 2 * (Modulus \div 2) <= Modulus
          BY <1>0
        <5> QED
          BY <1>0, <3>1, <3>2, <3>4, <3>5, <3>6, <5>1
      <4>2. n + 1 \in 0 .. sent /\ last < n + 1
        BY <1>0, <3>3, <4>1
      <4> QED
        BY <2>0, <3>7, <4>2 DEF NextSent, seq
    <3>8. CASE Distance(p) = 0 /\ next_seq' = (seq(p) + 1) % Modulus /\ last' = p
      <4>1. n <= p
        BY <3>1, <3>4, <3>6, <3>8
      <4>2. next_seq' = seq(p + 1)
        BY <3>1, <3>8, SeqDistance
      <4>3. p + 1 \in 0 .. sent /\ last' < p + 1 /\ last' > last
        BY <1>0, <3>1, <3>2, <3>3, <3>8, <4>1
      <4> QED
        BY <2>0, <4>2, <4>3 DEF NextSent, seq
    <3> QED
      BY <2>2, <3>4, <3>7, <3>8 DEF p
  <2> QED
    BY <1>5, <2>1, <2>2, GetCases
<1> QED
  BY <1>2, <1>3, <1>4, <1>5 DEF Next

\* The packet get gives up is none of the buffered ones: the first one left is
\* ahead of it, so a later one with its number would be half a turn newer.
LEMMA LossStep ==
  TypeOK /\ BufferSent /\ Fresh /\ [Next]_vars
    => ((\A i, j \in DOMAIN buffer : i < j => buffer[i] < buffer[j]) => LossReported)
<1> SUFFICES ASSUME TypeOK, BufferSent, Fresh, [Next]_vars, lost' # lost,
                    \A i, j \in DOMAIN buffer : i < j => buffer[i] < buffer[j],
                    NEW i \in DOMAIN buffer, seq(buffer[i]) = next_seq
             PROVE  FALSE
  BY DEF LossReported
<1>0. /\ sent \in Nat /\ Modulus \in Nat \ {0} /\ DOMAIN buffer = 1 .. Len(buffer)
      /\ \A j \in DOMAIN buffer : buffer[j] \in Nat
  BY JitterAssumption, BufferedType DEF TypeOK
<1>1. get
  BY DEF Next, Send, reset, put, dtmf, vars
<1>2. PICK k \in 0 .. Len(buffer) - 1 :
        /\ \A j \in 1 .. k : Old(buffer[j])
        /\ ~Old(buffer[k + 1]) /\ Distance(buffer[k + 1]) > 0
  BY <1>1, GetCases
<1> DEFINE p == buffer[k + 1]
           q == buffer[i]
<1>3. Distance(q) = 0
  <2>1. q \in Nat /\ Modulus > 0
    BY <1>0
  <2>2. (seq(q) - seq(q)) % Modulus = q - q
    BY <1>0, <2>1, SeqApart
  <2> QED
    BY <2>1, <2>2 DEF Distance
<1>4. Modulus \div 2 \in Nat /\ 2 * (Modulus \div 2) <= Modulus
  BY <1>0
<1>5. i \notin 1 .. k /\ i # k + 1
  BY <1>2, <1>3, <1>4 DEF Old
<1>6. k + 1 \in DOMAIN buffer /\ k + 1 < i
  BY <1>0, <1>5
<1>7. /\ p \in Nat /\ q \in Nat /\ p < q /\ q < sent /\ 2 * (sent - p) < Modulus
  BY <1>0, <1>6 DEF BufferSent, Fresh
<1>8. Distance(p) = (seq(p) - seq(q)) % Modulus
  BY DEF Distance
<1> HIDE DEF p, q
<1>9. q - p < Modulus
  BY <1>0, <1>7
<1>10. Distance(p) = Modulus - (q - p)
  BY <1>7, <1>8, <1>9, SeqApart
<1>11. ~(Distance(p) > Modulus \div 2)
  BY <1>2 DEF Old, p
<1> QED
  BY <1>0, <1>4, <1>7, <1>10, <1>11

\* While no packet in the buffer is half a turn of the sequence numbers older
\* than the last one sent, packets are played in the order they were sent, each
\* at most once until the next reset, for every depth, capacity and network.
THEOREM OrderOfPlay == Spec /\ []Fresh => PlayedInOrder
<1>1. Init => BufferSent /\ NextSent
  BY DEF Init, BufferSent, NextSent
<1> QED
  BY <1>1, TypeInit, TypeStep, SentStep, OrderStep, PTL DEF Spec, PlayedInOrder

\* Under the same condition, what get reports as lost is not in a buffer whose
\* packets are in the order they were sent.
THEOREM LossesAreMissing == Spec /\ []Fresh => LossIsMissingInOrder
<1>1. Init => BufferSent
  BY DEF Init, BufferSent
<1> QED
  BY <1>1, TypeInit, TypeStep, SentStep, LossStep, PTL DEF Spec, LossIsMissingInOrder

\* Both hold of every stream of fewer packets than half the sequence numbers.
THEOREM ShortStreams ==
  ASSUME 2 * Packets < Modulus
  PROVE  Spec => PlayedInOrder /\ LossIsMissingInOrder
<1>1. TypeOK => Fresh
  <2> SUFFICES ASSUME TypeOK, NEW j \in DOMAIN buffer
               PROVE  2 * (sent - buffer[j]) < Modulus
    BY DEF Fresh
  <2>1. buffer[j] \in Nat
    BY BufferedType
  <2>2. Packets \in Nat /\ Modulus \in Nat
    BY JitterAssumption
  <2>3. sent \in Nat /\ sent <= Packets
    BY <2>2 DEF TypeOK
  <2> QED
    BY <2>1, <2>2, <2>3
<1> QED
  BY <1>1, TypeCorrect, OrderOfPlay, LossesAreMissing, PTL
=============================================================================
