------------------------------- MODULE SmsPdu -------------------------------
(***************************************************************************)
(* The SMS codec (ims/sms_pdu.py): TPDUs, RP-DATA, the GSM 7-bit, BCD and  *)
(* UCS-2 encodings, and messages of several parts.                         *)
(*                                                                         *)
(* Octets are numbers in sequences.  A character is its position in the    *)
(* GSM alphabet if it is in it, and a larger number below 2^16 if not.     *)
(* What may raise returns a set: empty if it does, else of one result.     *)
(***************************************************************************)
EXTENDS Integers, Sequences, SequencesExt

Octet == 0 .. 255

\* s[i] and s[a:b] of the source, counted from 0; past the end are zero bits.
At(s, i) == IF i < Len(s) THEN s[i + 1] ELSE 0
Slice(s, a, b) == SubSeq(s, a + 1, IF b < Len(s) THEN b ELSE Len(s))

-----------------------------------------------------------------------------
(* Encodings. *)

Escape == 27
QuestionMark == 63

Septets(text) ==
  [i \in DOMAIN text |-> IF text[i] < 128 /\ text[i] # Escape THEN text[i]
                         ELSE QuestionMark]

\* Septet i starts at bit 7i, octet k at bit 8k; each lies in two neighbours.
encode_gsm7(text) ==
  LET s == Septets(text) IN
  [k \in 1 .. (7 * Len(s) + 7) \div 8 |->
     LET bit == 8 * (k - 1)  i == bit \div 7  r == bit % 7 IN
     ((At(s, i) \div 2^r) + At(s, i + 1) * 2^(7 - r)) % 256]

\* Mutant: an octet that ends a septet is not looked at.
decode_gsm7_Short(data, num_septets) ==
  [n \in 1 .. num_septets |->
     LET bit == 7 * (n - 1) IN (At(data, bit \div 8) \div 2^(bit % 8)) % 128]
decode_gsm7(data, num_septets) ==
  [n \in 1 .. num_septets |->
     LET bit == 7 * (n - 1)  k == bit \div 8  r == bit % 8 IN
     ((At(data, k) \div 2^r) + At(data, k + 1) * 2^(8 - r)) % 128]

\* Mutant: an odd digit at the end has no octet.
encode_bcd_Even(digits) ==
  [k \in 1 .. Len(digits) \div 2 |-> digits[2 * k - 1] + 16 * digits[2 * k]]
encode_bcd(digits) ==
  [k \in 1 .. (Len(digits) + 1) \div 2 |->
     digits[2 * k - 1] + 16 * IF 2 * k <= Len(digits) THEN digits[2 * k] ELSE 15]

\* The digits among nibbles, in their order.
Digits(nibbles) ==
  LET kept[j \in 0 .. Len(nibbles)] ==
        IF j = 0 THEN <<>>
        ELSE IF nibbles[j] <= 9 THEN Append(kept[j - 1], nibbles[j])
        ELSE kept[j - 1]
  IN  kept[Len(nibbles)]
Nibbles(data) ==
  [j \in 1 .. 2 * Len(data) |->
     (data[(j + 1) \div 2] \div (IF j % 2 = 1 THEN 1 ELSE 16)) % 16]
decode_bcd(data, num_digits) == Slice(Digits(Nibbles(data)), 0, num_digits)

encode_ucs2(text) ==
  [k \in 1 .. 2 * Len(text) |->
     LET c == text[(k + 1) \div 2] IN IF k % 2 = 1 THEN c \div 256 ELSE c % 256]
\* An odd octet at the end becomes U+FFFD.
decode_ucs2(data) ==
  [n \in 1 .. Len(data) \div 2 |-> 256 * data[2 * n - 1] + data[2 * n]]
    \o IF Len(data) % 2 = 1 THEN <<65533>> ELSE <<>>

-----------------------------------------------------------------------------
(* Addresses: digits, or text if alphanumeric. *)

Alphanumeric == 5
International(number) == [number |-> number, ton |-> 1]

address_to_bytes(a) ==
  LET toa == 128 + 16 * a.ton + 1 IN
  IF a.ton = Alphanumeric
  THEN <<2 * Len(a.number), toa>> \o encode_gsm7(a.number)
  ELSE <<Len(a.number), toa>> \o encode_bcd(a.number)

\* The address at offset o; it ends at AddressEnd.
AddressEnd(data, o) == o + 2 + (At(data, o) + 1) \div 2
address_from_bytes(data, o) ==
  LET len == At(data, o)
      ton == (At(data, o + 1) \div 16) % 8
      octets == Slice(data, o + 2, AddressEnd(data, o))
  IN  [ton |-> ton,
       number |-> IF ton = Alphanumeric
                  THEN decode_gsm7(octets, (4 * len) \div 7)
                  ELSE decode_bcd(octets, len)]

-----------------------------------------------------------------------------
(* TPDUs. *)

GSM_7BIT == 0
EIGHT_BIT == 4
UCS2 == 8

Flags == {"dup", "report", "udh", "reply"}
FlagBits(f) == (IF "dup" \in f THEN 4 ELSE 0) + (IF "report" \in f THEN 32 ELSE 0)
             + (IF "udh" \in f THEN 64 ELSE 0) + (IF "reply" \in f THEN 128 ELSE 0)
FlagsOf(octet) ==
  {x \in Flags : (octet \div FlagBits({x})) % 2 = 1}

\* User data and its length, which counts septets or octets.
EncodedData(m) ==
  IF m.text = <<>> \/ m.data # <<>> THEN m.data
  ELSE IF m.dcs = UCS2 THEN encode_ucs2(m.text)
  ELSE IF m.dcs = GSM_7BIT THEN encode_gsm7(m.text) ELSE <<>>
UserDataLength(m) ==
  IF m.dcs # GSM_7BIT THEN Len(EncodedData(m))
  ELSE IF m.text # <<>> THEN Len(m.text) ELSE (Len(EncodedData(m)) * 8) \div 7

\* What is read at offset o, and the text in it.
UserData(dcs, data, o) ==
  LET udl == At(data, o) IN
  Slice(data, o + 1, o + 1 + IF dcs = GSM_7BIT THEN (7 * udl + 7) \div 8 ELSE udl)
UserText(dcs, data, o) ==
  IF dcs = UCS2 THEN decode_ucs2(UserData(dcs, data, o))
  ELSE IF dcs = GSM_7BIT THEN decode_gsm7(UserData(dcs, data, o), At(data, o))
  ELSE <<>>
\* Offset o can be read, the type of number and the coding are known.
Readable(data, o, ton, dcs) == o < Len(data) /\ ton # 7 /\ dcs # 12

\* An octet that is too large raises.
Octets(s) == IF \A i \in DOMAIN s : s[i] \in Octet THEN {s} ELSE {}

\* SMSSubmit; vp is -1 if there is no validity period.
submit_create(number, text, dcs, ref) ==
  [ref |-> ref, address |-> International(number), pid |-> 0, dcs |-> dcs,
   vp |-> -1, flags |-> {}, text |-> text, data |-> <<>>]

submit_to_bytes(m) ==
  Octets(<<1 + FlagBits(m.flags) + (IF m.vp = -1 THEN 0 ELSE 16), m.ref % 256>>
         \o address_to_bytes(m.address) \o <<m.pid, m.dcs>>
         \o (IF m.vp = -1 THEN <<>> ELSE <<m.vp>>)
         \o <<UserDataLength(m)>> \o EncodedData(m))

submit_from_bytes(data) ==
  LET o == AddressEnd(data, 2)
      vpf == (At(data, 0) \div 8) % 4
      end == o + 2 + (CASE vpf = 0 -> 0 [] vpf = 2 -> 1 [] OTHER -> 7)
      a == address_from_bytes(data, 2)
      dcs == 4 * ((At(data, o + 1) \div 4) % 4)
  IN  IF ~Readable(data, end, a.ton, dcs) THEN {}
      ELSE {[ref |-> At(data, 1), address |-> a, pid |-> At(data, o), dcs |-> dcs,
             vp |-> IF vpf = 2 THEN At(data, o + 2) ELSE -1,
             flags |-> FlagsOf(At(data, 0)), text |-> UserText(dcs, data, end),
             data |-> UserData(dcs, data, end)]}

\* SMSDeliver; its flag "dup" says that no more messages follow.
deliver_create(address, text, dcs) ==
  [address |-> address, pid |-> 0, dcs |-> dcs, time |-> <<0, 0, 0, 0, 0, 0, 0>>,
   flags |-> {}, text |-> text, data |-> <<>>]

deliver_to_bytes(m) ==
  Octets(<<FlagBits(m.flags)>> \o address_to_bytes(m.address) \o <<m.pid, m.dcs>>
         \o m.time \o <<UserDataLength(m)>> \o EncodedData(m))

deliver_from_bytes(data) ==
  LET o == AddressEnd(data, 1)
      a == address_from_bytes(data, 1)
      dcs == 4 * ((At(data, o + 1) \div 4) % 4)
  IN  IF ~Readable(data, o + 9, a.ton, dcs) THEN {}
      ELSE {[address |-> a, pid |-> At(data, o), dcs |-> dcs,
             time |-> Slice(data, o + 2, o + 9), flags |-> FlagsOf(At(data, 0)),
             text |-> UserText(dcs, data, o + 9), data |-> UserData(dcs, data, o + 9)]}

-----------------------------------------------------------------------------
(* RP-DATA, and the PDUs of the RIL. *)

RP_DATA_MO == 0
RP_DATA_MT == 1

wrap(type, tpdu, ref) ==
  [type |-> type, ref |-> ref, originator |-> <<>>, destination |-> <<>>,
   tpdu |-> tpdu]

rp_to_bytes(m) ==
  Octets(<<m.type, m.ref % 256, Len(m.originator)>> \o m.originator
         \o <<Len(m.destination)>> \o m.destination \o <<Len(m.tpdu)>> \o m.tpdu)

\* Mutant: the destination's length is not skipped.
DestinationAt_Early(data) == 2 + At(data, 2)
DestinationAt(data) == 3 + At(data, 2)
rp_from_bytes(data) ==
  LET d == DestinationAt(data)
      t == d + 1 + At(data, d)
  IN  IF t >= Len(data) \/ At(data, 0) > 5 THEN {}
      ELSE {[type |-> At(data, 0), ref |-> At(data, 1),
             originator |-> Slice(data, 3, d),
             destination |-> Slice(data, d + 1, t),
             tpdu |-> Slice(data, t + 1, t + 1 + At(data, t))]}

build_pdu_for_ril(tpdu, smsc) == <<Len(smsc)>> \o smsc \o tpdu
parse_pdu_from_ril(pdu) ==
  IF pdu = <<>> THEN {} ELSE {Slice(pdu, 1 + At(pdu, 0), Len(pdu))}

-----------------------------------------------------------------------------
(* Messages of several parts. *)

Limits(dcs) == IF dcs = UCS2 THEN [single |-> 70, part |-> 67]
               ELSE [single |-> 160, part |-> 153]

encode_udh_concat(ref, total, part) ==
  <<5, 0, 3, ref % 256, total % 256, part % 256>>

\* <<reference, total, part>> of a header with this element alone; the element is
\* looked for among others too, but split_multipart writes none.
decode_udh_concat(udh) ==
  IF At(udh, 0) = 0 \/ Len(udh) < 1 + At(udh, 0) \/ Len(udh) < 6 THEN {}
  ELSE IF udh[2] = 0 /\ udh[3] = 3 THEN {<<udh[4], udh[5], udh[6]>>}
  ELSE IF udh[2] = 8 /\ udh[3] = 4 /\ Len(udh) >= 7
  THEN {<<256 * udh[4] + udh[5], udh[6], udh[7]>>}
  ELSE {}

\* Mutant: the part is as long as a message of one part.
PartText_Long(text, dcs, i) ==
  Slice(text, (i - 1) * Limits(dcs).part, (i - 1) * Limits(dcs).part + Limits(dcs).single)
PartText(text, dcs, i) ==
  Slice(text, (i - 1) * Limits(dcs).part, i * Limits(dcs).part)

split_multipart(number, text, dcs, ref, concat) ==
  LET total == (Len(text) + Limits(dcs).part - 1) \div Limits(dcs).part IN
  IF Len(text) <= Limits(dcs).single
  THEN <<submit_create(number, text, dcs, ref)>>
  ELSE [i \in 1 .. total |->
          LET part == PartText(text, dcs, i) IN
          [submit_create(number, part, dcs, (ref + i - 1) % 256) EXCEPT
             !.flags = {"udh"},
             !.data = encode_udh_concat(concat, total, i)
                        \o IF dcs = UCS2 THEN encode_ucs2(part) ELSE encode_gsm7(part)]]

\* parts is a sequence of <<part, total, text>> as they came.  Mutant: only
\* their number is compared.
InOrder_Counted(sorted) == Len(sorted) = sorted[1][2]
InOrder(sorted) ==
  Len(sorted) = sorted[1][2] /\ \A i \in DOMAIN sorted : sorted[i][1] = i

reassemble_multipart(parts) ==
  LET sorted == SortSeq(parts, LAMBDA p, q : p[1] < q[1]) IN
  IF parts = <<>> \/ ~InOrder(sorted) THEN {}
  ELSE {FlattenSeq([i \in DOMAIN sorted |-> sorted[i][3]])}
=============================================================================
