------------------------- MODULE SmsOverIms_proofs -------------------------
(***************************************************************************)
(* What the SMS service promises, for all texts, numbers and scenes.       *)
(***************************************************************************)
EXTENDS SmsOverIms, SequenceTheorems, FiniteSetTheorems, TLAPS

-----------------------------------------------------------------------------
(* Sequences, counted from 0. *)

\* A nonempty set of natural numbers has a least one.
LEMMA LeastNumber ==
  ASSUME NEW I \in SUBSET Nat, I # {}
  PROVE  \E m \in I : \A j \in I : m <= j
<1> DEFINE R == OpToRel(<, Nat)
<1>1. IsWellFoundedOn(R, Nat)
  BY NatLessThanWellFounded
<1>2. \A p, q \in Nat : p < q => <<p, q>> \in R
  BY DEF OpToRel
<1> HIDE DEF R
<1>3. PICK m \in I : \A j \in I : ~ <<j, m>> \in R
  <2>1. I \subseteq Nat /\ I # {}
    OBVIOUS
  <2> QED
    BY <1>1, <2>1, WFMin, Zenon
<1>4. ASSUME NEW j \in I PROVE m <= j
  <2>1. j \in Nat /\ m \in Nat
    OBVIOUS
  <2>2. ~ (j < m)
    BY <1>2, <1>3, <2>1
  <2> QED
    BY <2>1, <2>2
<1> QED
  BY <1>3, <1>4

\* Sequences built from functions.
LEMMA Built ==
  ASSUME NEW S, NEW n \in Nat, NEW f \in [1 .. n -> S]
  PROVE  f \in Seq(S) /\ Len(f) = n
<1>1. f \in Seq(S)
  BY SeqDef
<1>2. DOMAIN f = 1 .. n /\ DOMAIN f = 1 .. Len(f) /\ Len(f) \in Nat
  BY <1>1, LenProperties
<1>3. \A j, k \in Nat : j < k => k \in 1 .. k /\ k \notin 1 .. j
  OBVIOUS
<1>4. ~ (n < Len(f)) /\ ~ (Len(f) < n)
  BY <1>2, <1>3
<1> QED
  BY <1>1, <1>2, <1>4

\* A part of a sequence.
LEMMA Portion ==
  ASSUME NEW S, NEW s \in Seq(S), NEW p \in Nat, NEW q \in p .. Len(s)
  PROVE  /\ SubSeq(s, p + 1, q) \in Seq(S) /\ Len(SubSeq(s, p + 1, q)) = q - p
         /\ \A k \in 1 .. q - p : SubSeq(s, p + 1, q)[k] = s[p + k]
<1>1. \A k \in p + 1 .. q : s[k] \in S
  OBVIOUS
<1>2. p + 1 \in Int /\ q \in Int /\ q <= Len(s) /\ p <= q
  OBVIOUS
<1>3. /\ SubSeq(s, p + 1, q) \in Seq(S)
      /\ Len(SubSeq(s, p + 1, q)) = IF p + 1 <= q THEN q - (p + 1) + 1 ELSE 0
      /\ \A k \in 1 .. q - (p + 1) + 1 : SubSeq(s, p + 1, q)[k] = s[(p + 1) + k - 1]
  BY <1>1, <1>2, SubSeqProperties
<1>4. q - (p + 1) + 1 = q - p
  BY <1>2
<1>5. \A k \in 1 .. q - p : (p + 1) + k - 1 = p + k
  BY <1>2
<1> QED
  BY <1>2, <1>3, <1>4, <1>5

\* The part A of X \o A \o Y, by positions.
LEMMA PartAt ==
  ASSUME NEW X \in Seq(Nat), NEW A \in Seq(Nat), NEW Y \in Seq(Nat)
  PROVE  /\ X \o A \o Y \in Seq(Nat)
         /\ Len(X \o A \o Y) = Len(X) + Len(A) + Len(Y)
         /\ \A i \in 0 .. Len(A) - 1 : At(X \o A \o Y, Len(X) + i) = A[i + 1]
<1>1. X \o A \in Seq(Nat) /\ Len(X \o A) = Len(X) + Len(A)
  OBVIOUS
<1>2. X \o A \o Y \in Seq(Nat) /\ Len(X \o A \o Y) = Len(X) + Len(A) + Len(Y)
  BY <1>1
<1>3. ASSUME NEW i \in 0 .. Len(A) - 1
      PROVE  At(X \o A \o Y, Len(X) + i) = A[i + 1]
  <2>1. Len(X) + i + 1 \in 1 .. Len(X \o A)
    BY <1>1
  <2>2. (X \o A \o Y)[Len(X) + i + 1] = (X \o A)[Len(X) + i + 1]
    BY <1>1, <2>1
  <2>3. (X \o A)[Len(X) + i + 1] = A[i + 1]
    OBVIOUS
  <2> QED
    BY <1>2, <2>2, <2>3 DEF At
<1> QED
  BY <1>2, <1>3

\* A part of A in it.
LEMMA PartSlice ==
  ASSUME NEW X \in Seq(Nat), NEW A \in Seq(Nat), NEW Y \in Seq(Nat),
         NEW i \in 0 .. Len(A), NEW j \in i .. Len(A)
  PROVE  Slice(X \o A \o Y, Len(X) + i, Len(X) + j) = SubSeq(A, i + 1, j)
<1> DEFINE s == X \o A \o Y
<1>1. s \in Seq(Nat) /\ Len(s) = Len(X) + Len(A) + Len(Y)
  BY PartAt
<1>2. \A k \in 1 .. Len(A) : s[Len(X) + k] = A[k]
  <2>1. \A k \in 0 .. Len(A) - 1 : At(s, Len(X) + k) = A[k + 1]
    BY PartAt
  <2> SUFFICES ASSUME NEW k \in 1 .. Len(A) PROVE s[Len(X) + k] = A[k]
    OBVIOUS
  <2>2. k - 1 \in 0 .. Len(A) - 1
    OBVIOUS
  <2>3. At(s, Len(X) + (k - 1)) = A[(k - 1) + 1]
    BY <2>1, <2>2
  <2>4. (k - 1) + 1 = k /\ Len(X) + (k - 1) + 1 = Len(X) + k /\ Len(X) + (k - 1) < Len(s)
    BY <1>1
  <2> QED
    BY <2>3, <2>4 DEF At
<1> HIDE DEF s
<1>3. Slice(s, Len(X) + i, Len(X) + j) = SubSeq(s, Len(X) + i + 1, Len(X) + j)
  <2>1. Len(X) + j <= Len(s) /\ Len(X) + j \in Int /\ Len(s) \in Int
    BY <1>1
  <2> QED
    BY <2>1 DEF Slice
<1>4. SubSeq(A, i + 1, j) \in Seq(Nat) /\ Len(SubSeq(A, i + 1, j)) = j - i
      /\ \A k \in 1 .. j - i : SubSeq(A, i + 1, j)[k] = A[i + k]
  <2>1. i \in Nat /\ j \in i .. Len(A)
    OBVIOUS
  <2> QED
    BY <2>1, Portion
<1>5. SubSeq(s, Len(X) + i + 1, Len(X) + j) \in Seq(Nat)
      /\ Len(SubSeq(s, Len(X) + i + 1, Len(X) + j)) = j - i
      /\ \A k \in 1 .. j - i : SubSeq(s, Len(X) + i + 1, Len(X) + j)[k] = s[Len(X) + i + k]
  <2> DEFINE p == Len(X) + i
  <2> DEFINE q == Len(X) + j
  <2>1. p \in Nat /\ q \in p .. Len(s) /\ q - p = j - i
    BY <1>1
  <2> HIDE DEF p, q
  <2>2. SubSeq(s, p + 1, q) \in Seq(Nat) /\ Len(SubSeq(s, p + 1, q)) = q - p
        /\ \A k \in 1 .. q - p : SubSeq(s, p + 1, q)[k] = s[p + k]
    BY <1>1, <2>1, Portion
  <2> QED
    BY <2>1, <2>2 DEF p, q
<1>6. \A k \in 1 .. j - i : s[Len(X) + i + k] = A[i + k]
  <2> SUFFICES ASSUME NEW k \in 1 .. j - i PROVE s[Len(X) + i + k] = A[i + k]
    OBVIOUS
  <2>1. i + k \in 1 .. Len(A)
    OBVIOUS
  <2> QED
    BY <1>2, <2>1
<1>7. SubSeq(s, Len(X) + i + 1, Len(X) + j) = SubSeq(A, i + 1, j)
  BY <1>4, <1>5, <1>6, SeqEqual
<1> QED
  BY <1>3, <1>7 DEF s

\* All of it.
LEMMA PartWhole ==
  ASSUME NEW X \in Seq(Nat), NEW A \in Seq(Nat), NEW Y \in Seq(Nat)
  PROVE  Slice(X \o A \o Y, Len(X), Len(X) + Len(A)) = A
<1>1. 0 \in 0 .. Len(A) /\ Len(A) \in 0 .. Len(A)
  OBVIOUS
<1>2. Slice(X \o A \o Y, Len(X) + 0, Len(X) + Len(A)) = SubSeq(A, 0 + 1, Len(A))
  BY <1>1, PartSlice
<1>3. SubSeq(A, 1, Len(A)) = A
  BY SubSeqFull
<1> QED
  BY <1>2, <1>3

-----------------------------------------------------------------------------
(* The GSM alphabet. *)

\* Septets are numbers below 128, also past the end.
LEMMA SeptetsTyped ==
  ASSUME NEW text \in Seq(Nat)
  PROVE  /\ Septets(text) \in Seq(0 .. 127) /\ Len(Septets(text)) = Len(text)
         /\ \A i \in Nat : At(Septets(text), i) \in 0 .. 127
<1> DEFINE s == Septets(text)
<1>1. Len(text) \in Nat /\ DOMAIN text = 1 .. Len(text)
  OBVIOUS
<1>2. s \in [1 .. Len(text) -> 0 .. 127]
  <2>1. s = [i \in 1 .. Len(text) |->
               IF text[i] < 128 /\ text[i] # 27 THEN text[i] ELSE 63]
    BY <1>1 DEF Septets, Escape, QuestionMark
  <2>2. ASSUME NEW i \in 1 .. Len(text)
        PROVE  (IF text[i] < 128 /\ text[i] # 27 THEN text[i] ELSE 63) \in 0 .. 127
    <3>1. text[i] \in Nat
      OBVIOUS
    <3>2. \A x \in Nat : (IF x < 128 /\ x # 27 THEN x ELSE 63) \in 0 .. 127
      OBVIOUS
    <3> QED
      BY <3>1, <3>2
  <2> QED
    BY <2>1, <2>2
<1> HIDE DEF s
<1>3. s \in Seq(0 .. 127)
  BY <1>1, <1>2, Built
<1>4. Len(s) = Len(text)
  BY <1>1, <1>2, Built
<1>5. \A i \in Nat : At(s, i) \in 0 .. 127
  <2> SUFFICES ASSUME NEW i \in Nat PROVE At(s, i) \in 0 .. 127
    OBVIOUS
  <2>1. CASE i < Len(s)
    <3>1. i + 1 \in 1 .. Len(s)
      BY <1>1, <1>4, <2>1
    <3>2. s[i + 1] \in 0 .. 127
      BY <1>3, <3>1, ElementOfSeq
    <3> QED
      BY <2>1, <3>2 DEF At
  <2>2. CASE ~ (i < Len(s))
    BY <2>2 DEF At
  <2> QED
    BY <2>1, <2>2
<1> QED
  BY <1>3, <1>4, <1>5 DEF s

\* What the alphabet can show is what is packed.
LEMMA ShownSeptets ==
  ASSUME NEW text \in Seq(Nat)
  PROVE  AsShown(text) = Septets(text)
<1>1. \A i \in DOMAIN text : text[i] \in Nat
  OBVIOUS
<1>2. \A x \in Nat : x \in (0 .. 127) \ {27} <=> x < 128 /\ x # 27
  OBVIOUS
<1>3. \A i \in DOMAIN text :
        (text[i] \in (0 .. 127) \ {27}) <=> (text[i] < 128 /\ text[i] # 27)
  BY <1>1, <1>2, Zenon
<1> QED
  BY <1>3 DEF AsShown, Septets, Escape

\* Octet k of the packed septets, also past the end.
Packed(text, k) ==
  LET i == (8 * k) \div 7  r == (8 * k) % 7 IN
  ((At(Septets(text), i) \div 2^r) + At(Septets(text), i + 1) * 2^(7 - r)) % 256

\* Past the end of a text no septet has bits.
LEMMA SeptetsPast ==
  ASSUME NEW text \in Seq(Nat), NEW i \in Nat, i >= Len(text)
  PROVE  At(Septets(text), i) = 0
<1>1. Len(Septets(text)) = Len(text)
  BY SeptetsTyped
<1> QED
  BY <1>1 DEF At

\* The powers of two.
LEMMA Powers ==
  /\ 2^0 = 1 /\ 2^1 = 2 /\ 2^2 = 4 /\ 2^3 = 8 /\ 2^4 = 16 /\ 2^5 = 32 /\ 2^6 = 64
  /\ 2^7 = 128 /\ 2^8 = 256
  /\ \A r \in 0 .. 8 : 2^r \in Nat \ {0}
<1>1. /\ 2^0 = 1 /\ 2^1 = 2 /\ 2^2 = 4 /\ 2^3 = 8 /\ 2^4 = 16 /\ 2^5 = 32 /\ 2^6 = 64
      /\ 2^7 = 128 /\ 2^8 = 256
  OBVIOUS
<1>2. ASSUME NEW r \in 0 .. 8 PROVE 2^r \in Nat \ {0}
  <2>1. r = 0 \/ r = 1 \/ r = 2 \/ r = 3 \/ r = 4 \/ r = 5 \/ r = 6 \/ r = 7 \/ r = 8
    OBVIOUS
  <2>2. 2^0 \in Nat \ {0} /\ 2^1 \in Nat \ {0} /\ 2^2 \in Nat \ {0} /\ 2^3 \in Nat \ {0}
        /\ 2^4 \in Nat \ {0} /\ 2^5 \in Nat \ {0} /\ 2^6 \in Nat \ {0}
        /\ 2^7 \in Nat \ {0} /\ 2^8 \in Nat \ {0}
    BY <1>1
  <2> QED
    BY <2>1, <2>2, Zenon
<1> QED
  BY <1>1, <1>2

\* Packing eight octets at a time.
LEMMA PackedPeriod ==
  ASSUME NEW text \in Seq(Nat), NEW q \in Nat
  PROVE  LET S(i) == At(Septets(text), 8 * q + i) IN
         /\ Packed(text, 7 * q) = (S(0) + S(1) * 128) % 256
         /\ Packed(text, 7 * q + 1) = ((S(1) \div 2) + S(2) * 64) % 256
         /\ Packed(text, 7 * q + 2) = ((S(2) \div 4) + S(3) * 32) % 256
         /\ Packed(text, 7 * q + 3) = ((S(3) \div 8) + S(4) * 16) % 256
         /\ Packed(text, 7 * q + 4) = ((S(4) \div 16) + S(5) * 8) % 256
         /\ Packed(text, 7 * q + 5) = ((S(5) \div 32) + S(6) * 4) % 256
         /\ Packed(text, 7 * q + 6) = ((S(6) \div 64) + S(7) * 2) % 256
<1> DEFINE T(i) == At(Septets(text), i)
<1>1. \A i \in Nat : T(i) \in 0 .. 127
  BY SeptetsTyped
<1>2. \A k \in Nat : Packed(text, k) =
        ((T((8 * k) \div 7) \div 2^((8 * k) % 7))
          + T(((8 * k) \div 7) + 1) * 2^(7 - ((8 * k) % 7))) % 256
  BY DEF Packed
<1> HIDE DEF T
<1>3. \A c \in 0 .. 6 :
        /\ 7 * q + c \in Nat
        /\ (8 * (7 * q + c)) \div 7 = 8 * q + c
        /\ (8 * (7 * q + c)) % 7 = c
  OBVIOUS
<1>4. \A c \in 0 .. 6 : Packed(text, 7 * q + c) =
        ((T(8 * q + c) \div 2^c) + T(8 * q + c + 1) * 2^(7 - c)) % 256
  <2> SUFFICES ASSUME NEW c \in 0 .. 6
               PROVE  Packed(text, 7 * q + c) =
                        ((T(8 * q + c) \div 2^c) + T(8 * q + c + 1) * 2^(7 - c)) % 256
    OBVIOUS
  <2> DEFINE k == 7 * q + c
  <2>1. k \in Nat /\ (8 * k) \div 7 = 8 * q + c /\ (8 * k) % 7 = c
    BY <1>3
  <2> HIDE DEF k
  <2>2. Packed(text, k) =
        ((T((8 * k) \div 7) \div 2^((8 * k) % 7))
          + T(((8 * k) \div 7) + 1) * 2^(7 - ((8 * k) % 7))) % 256
    BY <1>2, <2>1
  <2>3. Packed(text, k) = ((T(8 * q + c) \div 2^c) + T((8 * q + c) + 1) * 2^(7 - c)) % 256
    BY <2>1, <2>2
  <2> QED
    BY <2>3 DEF k
<1>5. 2^0 = 1 /\ 2^1 = 2 /\ 2^2 = 4 /\ 2^3 = 8 /\ 2^4 = 16 /\ 2^5 = 32 /\ 2^6 = 64
      /\ 2^7 = 128
  OBVIOUS
<1>6. Packed(text, 7 * q) = (T(8 * q) + T(8 * q + 1) * 128) % 256
  <2>1. Packed(text, 7 * q + 0)
          = ((T(8 * q + 0) \div 2^0) + T(8 * q + 0 + 1) * 2^(7 - 0)) % 256
    BY <1>4
  <2>2. 7 * q + 0 = 7 * q /\ 8 * q + 0 = 8 * q /\ 7 - 0 = 7
    OBVIOUS
  <2>3. Packed(text, 7 * q) = ((T(8 * q) \div 1) + T(8 * q + 1) * 128) % 256
    BY <1>5, <2>1, <2>2
  <2>4. T(8 * q) \in 0 .. 127
    BY <1>1
  <2>5. \A x \in 0 .. 127 : x \div 1 = x
    OBVIOUS
  <2> QED
    BY <2>3, <2>4, <2>5
<1>7. Packed(text, 7 * q + 1)
          = ((T(8 * q + 1) \div 2) + T(8 * q + 2) * 64) % 256
  <2>1. Packed(text, 7 * q + 1)
          = ((T(8 * q + 1) \div 2^1) + T(8 * q + 1 + 1) * 2^(7 - 1)) % 256
    BY <1>4
  <2>2. 8 * q + 1 + 1 = 8 * q + 2 /\ 7 - 1 = 6
    OBVIOUS
  <2> QED
    BY <1>5, <2>1, <2>2
<1>8. Packed(text, 7 * q + 2)
          = ((T(8 * q + 2) \div 4) + T(8 * q + 3) * 32) % 256
  <2>1. Packed(text, 7 * q + 2)
          = ((T(8 * q + 2) \div 2^2) + T(8 * q + 2 + 1) * 2^(7 - 2)) % 256
    BY <1>4
  <2>2. 8 * q + 2 + 1 = 8 * q + 3 /\ 7 - 2 = 5
    OBVIOUS
  <2> QED
    BY <1>5, <2>1, <2>2
<1>9. Packed(text, 7 * q + 3)
          = ((T(8 * q + 3) \div 8) + T(8 * q + 4) * 16) % 256
  <2>1. Packed(text, 7 * q + 3)
          = ((T(8 * q + 3) \div 2^3) + T(8 * q + 3 + 1) * 2^(7 - 3)) % 256
    BY <1>4
  <2>2. 8 * q + 3 + 1 = 8 * q + 4 /\ 7 - 3 = 4
    OBVIOUS
  <2> QED
    BY <1>5, <2>1, <2>2
<1>10. Packed(text, 7 * q + 4)
          = ((T(8 * q + 4) \div 16) + T(8 * q + 5) * 8) % 256
  <2>1. Packed(text, 7 * q + 4)
          = ((T(8 * q + 4) \div 2^4) + T(8 * q + 4 + 1) * 2^(7 - 4)) % 256
    BY <1>4
  <2>2. 8 * q + 4 + 1 = 8 * q + 5 /\ 7 - 4 = 3
    OBVIOUS
  <2> QED
    BY <1>5, <2>1, <2>2
<1>11. Packed(text, 7 * q + 5)
          = ((T(8 * q + 5) \div 32) + T(8 * q + 6) * 4) % 256
  <2>1. Packed(text, 7 * q + 5)
          = ((T(8 * q + 5) \div 2^5) + T(8 * q + 5 + 1) * 2^(7 - 5)) % 256
    BY <1>4
  <2>2. 8 * q + 5 + 1 = 8 * q + 6 /\ 7 - 5 = 2
    OBVIOUS
  <2> QED
    BY <1>5, <2>1, <2>2
<1>12. Packed(text, 7 * q + 6)
          = ((T(8 * q + 6) \div 64) + T(8 * q + 7) * 2) % 256
  <2>1. Packed(text, 7 * q + 6)
          = ((T(8 * q + 6) \div 2^6) + T(8 * q + 6 + 1) * 2^(7 - 6)) % 256
    BY <1>4
  <2>2. 8 * q + 6 + 1 = 8 * q + 7 /\ 7 - 6 = 1
    OBVIOUS
  <2> QED
    BY <1>5, <2>1, <2>2
<1>13. 8 * q + 0 = 8 * q
  OBVIOUS
<1> QED
  BY <1>6, <1>7, <1>8, <1>9, <1>10, <1>11, <1>12, <1>13 DEF T

\* Octets past the packed ones are zero.
LEMMA PackedPast ==
  ASSUME NEW text \in Seq(Nat), NEW k \in Nat, k >= (7 * Len(text) + 7) \div 8
  PROVE  Packed(text, k) = 0
<1> DEFINE i == (8 * k) \div 7
<1> DEFINE r == (8 * k) % 7
<1>1. i \in Nat /\ i >= Len(text) /\ r \in 0 .. 6
  <2>1. Len(text) \in Nat
    OBVIOUS
  <2>2. \A n \in Nat : k >= (7 * n + 7) \div 8 => (8 * k) \div 7 >= n
    OBVIOUS
  <2> QED
    BY <2>1, <2>2
<1> HIDE DEF i, r
<1>2. At(Septets(text), i) = 0 /\ At(Septets(text), i + 1) = 0
  BY <1>1, SeptetsPast
<1>3. Packed(text, k) = ((0 \div 2^r) + 0 * 2^(7 - r)) % 256
  BY <1>2 DEF Packed, i, r
<1>4. 7 - r \in 0 .. 8 /\ r \in 0 .. 8
  BY <1>1
<1>5. 2^r \in Nat \ {0} /\ 2^(7 - r) \in Nat \ {0}
  BY <1>4, Powers
<1>6. \A x \in Nat \ {0} : 0 \div x = 0 /\ 0 * x = 0
  OBVIOUS
<1>7. 0 \div 2^r = 0 /\ 0 * 2^(7 - r) = 0
  BY <1>5, <1>6, Zenon
<1> QED
  BY <1>3, <1>7

\* An octet.
LEMMA PackedTyped ==
  ASSUME NEW text \in Seq(Nat), NEW k \in Nat
  PROVE  Packed(text, k) \in Octet
<1> DEFINE i == (8 * k) \div 7
<1> DEFINE r == (8 * k) % 7
<1>1. i \in Nat /\ i + 1 \in Nat /\ r \in 0 .. 8 /\ 7 - r \in 0 .. 8
  OBVIOUS
<1> HIDE DEF i, r
<1> DEFINE a == At(Septets(text), i)
<1> DEFINE b == At(Septets(text), i + 1)
<1> DEFINE x == 2^r
<1> DEFINE y == 2^(7 - r)
<1>2. Packed(text, k) = ((a \div x) + b * y) % 256
  BY DEF Packed, i, r
<1>3. a \in 0 .. 127 /\ b \in 0 .. 127
  BY <1>1, SeptetsTyped
<1>4. x \in Nat \ {0} /\ y \in Nat \ {0}
  BY <1>1, Powers
<1> HIDE DEF a, b, x, y
<1>5. a \div x \in Int /\ b * y \in Int
  BY <1>3, <1>4
<1>6. ((a \div x) + b * y) % 256 \in 0 .. 255
  <2>1. \A u, v \in Int : (u + v) % 256 \in 0 .. 255
    OBVIOUS
  <2> QED
    BY <1>5, <2>1
<1> QED
  BY <1>2, <1>6 DEF Octet

\* What is packed, by positions.
LEMMA PackedOctets ==
  ASSUME NEW text \in Seq(Nat)
  PROVE  /\ encode_gsm7(text) \in Seq(Octet)
         /\ Len(encode_gsm7(text)) = (7 * Len(text) + 7) \div 8
         /\ \A k \in Nat : At(encode_gsm7(text), k) = Packed(text, k)
<1> DEFINE n == (7 * Len(text) + 7) \div 8
<1> DEFINE e == encode_gsm7(text)
<1>1. n \in Nat
  OBVIOUS
<1>2. \A k \in Nat : Packed(text, k) \in Octet
  BY PackedTyped
<1>3. e = [k \in 1 .. n |-> Packed(text, k - 1)]
  <2>1. Len(Septets(text)) = Len(text)
    BY SeptetsTyped
  <2> QED
    BY <2>1 DEF encode_gsm7, Packed
<1> HIDE DEF e, n
<1>4. e \in [1 .. n -> Octet]
  <2>1. \A k \in 1 .. n : k - 1 \in Nat
    BY <1>1
  <2> QED
    BY <1>2, <1>3, <2>1
<1>5. e \in Seq(Octet) /\ Len(e) = n
  BY <1>1, <1>4, Built
<1>6. \A k \in Nat : At(e, k) = Packed(text, k)
  <2> SUFFICES ASSUME NEW k \in Nat PROVE At(e, k) = Packed(text, k)
    OBVIOUS
  <2>1. CASE k < n
    <3>1. k + 1 \in 1 .. n /\ (k + 1) - 1 = k
      BY <1>1, <2>1
    <3>2. e[k + 1] = Packed(text, (k + 1) - 1)
      BY <1>3, <3>1
    <3> QED
      BY <1>5, <2>1, <3>1, <3>2 DEF At
  <2>2. CASE ~ (k < n)
    <3>1. k >= n
      BY <1>1, <2>2
    <3>2. Packed(text, k) = 0
      BY <3>1, PackedPast DEF n
    <3> QED
      BY <1>5, <2>2, <3>2 DEF At
  <2> QED
    BY <2>1, <2>2
<1> QED
  BY <1>5, <1>6 DEF e, n

\* The septet at position n, read from octets k and k + 1 at bit r.
LEMMA Unpacked ==
  ASSUME NEW text \in Seq(Nat), NEW n \in Nat
  PROVE  LET k == (7 * n) \div 8  r == (7 * n) % 8 IN
         ((Packed(text, k) \div 2^r) + Packed(text, k + 1) * 2^(8 - r)) % 128
           = At(Septets(text), n)
<1> DEFINE k == (7 * n) \div 8
<1> DEFINE r == (7 * n) % 8
<1> DEFINE q == n \div 8
<1> DEFINE p == n % 8
<1> DEFINE S(i) == At(Septets(text), 8 * q + i)
<1> DEFINE Got == ((Packed(text, k) \div 2^r) + Packed(text, k + 1) * 2^(8 - r)) % 128
<1> SUFFICES Got = At(Septets(text), n)
  OBVIOUS
<1>1. q \in Nat /\ p \in 0 .. 7 /\ n = 8 * q + p
  OBVIOUS
<1>2. \A i \in 0 .. 7 : S(i) \in 0 .. 127
  <2>1. \A i \in 0 .. 7 : 8 * q + i \in Nat
    BY <1>1
  <2> HIDE DEF q
  <2> QED
    BY <2>1, SeptetsTyped
<1>3. /\ Packed(text, 7 * q) = (S(0) + S(1) * 128) % 256
      /\ Packed(text, 7 * q + 1) = ((S(1) \div 2) + S(2) * 64) % 256
      /\ Packed(text, 7 * q + 2) = ((S(2) \div 4) + S(3) * 32) % 256
      /\ Packed(text, 7 * q + 3) = ((S(3) \div 8) + S(4) * 16) % 256
      /\ Packed(text, 7 * q + 4) = ((S(4) \div 16) + S(5) * 8) % 256
      /\ Packed(text, 7 * q + 5) = ((S(5) \div 32) + S(6) * 4) % 256
      /\ Packed(text, 7 * q + 6) = ((S(6) \div 64) + S(7) * 2) % 256
  BY <1>1, PackedPeriod
<1>4. Packed(text, 7 * q + 7) \in Nat /\ Packed(text, 7 * q + 1) \in Nat
  <2>1. 7 * q + 7 \in Nat /\ 7 * q + 1 \in Nat
    BY <1>1
  <2> HIDE DEF q
  <2>2. \A j \in Nat : Packed(text, j) \in Octet
    BY PackedTyped
  <2>3. Octet \subseteq Nat
    BY DEF Octet
  <2> QED
    BY <2>1, <2>2, <2>3
<1>5. /\ p = 0 => k = 7 * q + 0 /\ r = 0
      /\ p = 1 => k = 7 * q + 0 /\ r = 7
      /\ p = 2 => k = 7 * q + 1 /\ r = 6
      /\ p = 3 => k = 7 * q + 2 /\ r = 5
      /\ p = 4 => k = 7 * q + 3 /\ r = 4
      /\ p = 5 => k = 7 * q + 4 /\ r = 3
      /\ p = 6 => k = 7 * q + 5 /\ r = 2
      /\ p = 7 => k = 7 * q + 6 /\ r = 1
  BY <1>1
<1>6. S(p) = At(Septets(text), n)
  BY <1>1
<1> HIDE DEF k, r, q, p, S
<1>7. CASE p = 0
  <2>1. k = 7 * q /\ k + 1 = 7 * q + 1 /\ 2^r = 1 /\ 2^(8 - r) = 256
    <3>1. 8 - 0 = 8 /\ 7 * q + 0 = 7 * q
      BY <1>1
    <3> QED
      BY <1>1, <1>5, <1>7, <3>1, Powers
  <2> DEFINE F(x, y, z) == ((((x + y * 128) % 256) \div 1) + z * 256) % 128
  <2>2. Got = F(S(0), S(1), Packed(text, 7 * q + 1))
    BY <1>3, <2>1
  <2>3. ASSUME NEW x \in 0 .. 127, NEW y \in 0 .. 127, NEW z \in Nat
        PROVE  F(x, y, z) = x
    OBVIOUS
  <2> HIDE DEF F, Got
  <2>4. Got = S(0)
    <3>1. S(0) \in 0 .. 127 /\ S(1) \in 0 .. 127 /\ Packed(text, 7 * q + 1) \in Nat
      BY <1>2, <1>4
    <3>2. F(S(0), S(1), Packed(text, 7 * q + 1)) = S(0)
      BY <2>3, <3>1
    <3> QED
      BY <2>2, <3>2
  <2> QED
    BY <1>6, <1>7, <2>4
<1>8. CASE p = 1
  <2>1. k = 7 * q /\ k + 1 = 7 * q + 1 /\ 2^r = 128 /\ 2^(8 - r) = 2
    <3>1. 8 - 7 = 1 /\ 7 * q + 0 = 7 * q
      BY <1>1
    <3> QED
      BY <1>1, <1>5, <1>8, <3>1, Powers
  <2> DEFINE F(x, y, z) ==
        ((((x + y * 128) % 256) \div 128) + (((y \div 2) + z * 64) % 256) * 2) % 128
  <2>2. Got = F(S(0), S(1), S(2))
    BY <1>3, <2>1
  <2>3. ASSUME NEW x \in 0 .. 127, NEW y \in 0 .. 127, NEW z \in 0 .. 127
        PROVE  F(x, y, z) = y
    <3>1. PICK h \in 0 .. 63, l \in 0 .. 1 : y = 2 * h + l
      <4>1. y = 2 * (y \div 2) + (y % 2) /\ y \div 2 \in 0 .. 63 /\ y % 2 \in 0 .. 1
        OBVIOUS
      <4> QED
        BY <4>1
    <3>2. PICK u \in 0 .. 127 : u = x
      OBVIOUS
    <3>3. (u + y * 128) % 256 = u + 128 * l
      BY <3>1
    <3>4. (u + 128 * l) \div 128 = l
      OBVIOUS
    <3>5. y \div 2 = h
      BY <3>1
    <3>6. (l + ((h + z * 64) % 256) * 2) % 128 = y
      BY <3>1
    <3> QED
      BY <3>2, <3>3, <3>4, <3>5, <3>6
  <2> HIDE DEF F, Got
  <2>4. Got = S(1)
    <3>1. S(0) \in 0 .. 127 /\ S(1) \in 0 .. 127 /\ S(2) \in 0 .. 127
      BY <1>2, <1>4
    <3>2. F(S(0), S(1), S(2)) = S(1)
      BY <2>3, <3>1
    <3> QED
      BY <2>2, <3>2
  <2> QED
    BY <1>6, <1>8, <2>4
<1>9. CASE p = 2
  <2>1. k = 7 * q + 1 /\ k + 1 = 7 * q + 2 /\ 2^r = 64 /\ 2^(8 - r) = 4
    <3>1. 8 - 6 = 2 /\ (7 * q + 1) + 1 = 7 * q + 2
      BY <1>1
    <3> QED
      BY <1>1, <1>5, <1>9, <3>1, Powers
  <2> DEFINE F(x, y, z) ==
        (((((x \div 2) + y * 64) % 256) \div 64) + (((y \div 4) + z * 32) % 256) * 4) % 128
  <2>2. Got = F(S(1), S(2), S(3))
    BY <1>3, <2>1
  <2>3. ASSUME NEW x \in 0 .. 127, NEW y \in 0 .. 127, NEW z \in 0 .. 127
        PROVE  F(x, y, z) = y
    <3>1. PICK h \in 0 .. 31, l \in 0 .. 3 : y = 4 * h + l
      <4>1. y = 4 * (y \div 4) + (y % 4) /\ y \div 4 \in 0 .. 31 /\ y % 4 \in 0 .. 3
        OBVIOUS
      <4> QED
        BY <4>1
    <3>2. PICK u \in 0 .. 63 : u = x \div 2
      OBVIOUS
    <3>3. (u + y * 64) % 256 = u + 64 * l
      BY <3>1
    <3>4. (u + 64 * l) \div 64 = l
      OBVIOUS
    <3>5. y \div 4 = h
      BY <3>1
    <3>6. (l + ((h + z * 32) % 256) * 4) % 128 = y
      BY <3>1
    <3> QED
      BY <3>2, <3>3, <3>4, <3>5, <3>6
  <2> HIDE DEF F, Got
  <2>4. Got = S(2)
    <3>1. S(1) \in 0 .. 127 /\ S(2) \in 0 .. 127 /\ S(3) \in 0 .. 127
      BY <1>2, <1>4
    <3>2. F(S(1), S(2), S(3)) = S(2)
      BY <2>3, <3>1
    <3> QED
      BY <2>2, <3>2
  <2> QED
    BY <1>6, <1>9, <2>4
<1>10. CASE p = 3
  <2>1. k = 7 * q + 2 /\ k + 1 = 7 * q + 3 /\ 2^r = 32 /\ 2^(8 - r) = 8
    <3>1. 8 - 5 = 3 /\ (7 * q + 2) + 1 = 7 * q + 3
      BY <1>1
    <3> QED
      BY <1>1, <1>5, <1>10, <3>1, Powers
  <2> DEFINE F(x, y, z) ==
        (((((x \div 4) + y * 32) % 256) \div 32) + (((y \div 8) + z * 16) % 256) * 8) % 128
  <2>2. Got = F(S(2), S(3), S(4))
    BY <1>3, <2>1
  <2>3. ASSUME NEW x \in 0 .. 127, NEW y \in 0 .. 127, NEW z \in 0 .. 127
        PROVE  F(x, y, z) = y
    <3>1. PICK h \in 0 .. 15, l \in 0 .. 7 : y = 8 * h + l
      <4>1. y = 8 * (y \div 8) + (y % 8) /\ y \div 8 \in 0 .. 15 /\ y % 8 \in 0 .. 7
        OBVIOUS
      <4> QED
        BY <4>1
    <3>2. PICK u \in 0 .. 31 : u = x \div 4
      OBVIOUS
    <3>3. (u + y * 32) % 256 = u + 32 * l
      BY <3>1
    <3>4. (u + 32 * l) \div 32 = l
      OBVIOUS
    <3>5. y \div 8 = h
      BY <3>1
    <3>6. (l + ((h + z * 16) % 256) * 8) % 128 = y
      BY <3>1
    <3> QED
      BY <3>2, <3>3, <3>4, <3>5, <3>6
  <2> HIDE DEF F, Got
  <2>4. Got = S(3)
    <3>1. S(2) \in 0 .. 127 /\ S(3) \in 0 .. 127 /\ S(4) \in 0 .. 127
      BY <1>2, <1>4
    <3>2. F(S(2), S(3), S(4)) = S(3)
      BY <2>3, <3>1
    <3> QED
      BY <2>2, <3>2
  <2> QED
    BY <1>6, <1>10, <2>4
<1>11. CASE p = 4
  <2>1. k = 7 * q + 3 /\ k + 1 = 7 * q + 4 /\ 2^r = 16 /\ 2^(8 - r) = 16
    <3>1. 8 - 4 = 4 /\ (7 * q + 3) + 1 = 7 * q + 4
      BY <1>1
    <3> QED
      BY <1>1, <1>5, <1>11, <3>1, Powers
  <2> DEFINE F(x, y, z) ==
        (((((x \div 8) + y * 16) % 256) \div 16) + (((y \div 16) + z * 8) % 256) * 16) % 128
  <2>2. Got = F(S(3), S(4), S(5))
    BY <1>3, <2>1
  <2>3. ASSUME NEW x \in 0 .. 127, NEW y \in 0 .. 127, NEW z \in 0 .. 127
        PROVE  F(x, y, z) = y
    <3>1. PICK h \in 0 .. 7, l \in 0 .. 15 : y = 16 * h + l
      <4>1. y = 16 * (y \div 16) + (y % 16) /\ y \div 16 \in 0 .. 7 /\ y % 16 \in 0 .. 15
        OBVIOUS
      <4> QED
        BY <4>1
    <3>2. PICK u \in 0 .. 15 : u = x \div 8
      OBVIOUS
    <3>3. (u + y * 16) % 256 = u + 16 * l
      BY <3>1
    <3>4. (u + 16 * l) \div 16 = l
      OBVIOUS
    <3>5. y \div 16 = h
      BY <3>1
    <3>6. (l + ((h + z * 8) % 256) * 16) % 128 = y
      BY <3>1
    <3> QED
      BY <3>2, <3>3, <3>4, <3>5, <3>6
  <2> HIDE DEF F, Got
  <2>4. Got = S(4)
    <3>1. S(3) \in 0 .. 127 /\ S(4) \in 0 .. 127 /\ S(5) \in 0 .. 127
      BY <1>2, <1>4
    <3>2. F(S(3), S(4), S(5)) = S(4)
      BY <2>3, <3>1
    <3> QED
      BY <2>2, <3>2
  <2> QED
    BY <1>6, <1>11, <2>4
<1>12. CASE p = 5
  <2>1. k = 7 * q + 4 /\ k + 1 = 7 * q + 5 /\ 2^r = 8 /\ 2^(8 - r) = 32
    <3>1. 8 - 3 = 5 /\ (7 * q + 4) + 1 = 7 * q + 5
      BY <1>1
    <3> QED
      BY <1>1, <1>5, <1>12, <3>1, Powers
  <2> DEFINE F(x, y, z) ==
        (((((x \div 16) + y * 8) % 256) \div 8) + (((y \div 32) + z * 4) % 256) * 32) % 128
  <2>2. Got = F(S(4), S(5), S(6))
    BY <1>3, <2>1
  <2>3. ASSUME NEW x \in 0 .. 127, NEW y \in 0 .. 127, NEW z \in 0 .. 127
        PROVE  F(x, y, z) = y
    <3>1. PICK h \in 0 .. 3, l \in 0 .. 31 : y = 32 * h + l
      <4>1. y = 32 * (y \div 32) + (y % 32) /\ y \div 32 \in 0 .. 3 /\ y % 32 \in 0 .. 31
        OBVIOUS
      <4> QED
        BY <4>1
    <3>2. PICK u \in 0 .. 7 : u = x \div 16
      OBVIOUS
    <3>3. (u + y * 8) % 256 = u + 8 * l
      BY <3>1
    <3>4. (u + 8 * l) \div 8 = l
      OBVIOUS
    <3>5. y \div 32 = h
      BY <3>1
    <3>6. (l + ((h + z * 4) % 256) * 32) % 128 = y
      BY <3>1
    <3> QED
      BY <3>2, <3>3, <3>4, <3>5, <3>6
  <2> HIDE DEF F, Got
  <2>4. Got = S(5)
    <3>1. S(4) \in 0 .. 127 /\ S(5) \in 0 .. 127 /\ S(6) \in 0 .. 127
      BY <1>2, <1>4
    <3>2. F(S(4), S(5), S(6)) = S(5)
      BY <2>3, <3>1
    <3> QED
      BY <2>2, <3>2
  <2> QED
    BY <1>6, <1>12, <2>4
<1>13. CASE p = 6
  <2>1. k = 7 * q + 5 /\ k + 1 = 7 * q + 6 /\ 2^r = 4 /\ 2^(8 - r) = 64
    <3>1. 8 - 2 = 6 /\ (7 * q + 5) + 1 = 7 * q + 6
      BY <1>1
    <3> QED
      BY <1>1, <1>5, <1>13, <3>1, Powers
  <2> DEFINE F(x, y, z) ==
        (((((x \div 32) + y * 4) % 256) \div 4) + (((y \div 64) + z * 2) % 256) * 64) % 128
  <2>2. Got = F(S(5), S(6), S(7))
    BY <1>3, <2>1
  <2>3. ASSUME NEW x \in 0 .. 127, NEW y \in 0 .. 127, NEW z \in 0 .. 127
        PROVE  F(x, y, z) = y
    <3>1. PICK h \in 0 .. 1, l \in 0 .. 63 : y = 64 * h + l
      <4>1. y = 64 * (y \div 64) + (y % 64) /\ y \div 64 \in 0 .. 1 /\ y % 64 \in 0 .. 63
        OBVIOUS
      <4> QED
        BY <4>1
    <3>2. PICK u \in 0 .. 3 : u = x \div 32
      OBVIOUS
    <3>3. (u + y * 4) % 256 = u + 4 * l
      BY <3>1
    <3>4. (u + 4 * l) \div 4 = l
      OBVIOUS
    <3>5. y \div 64 = h
      BY <3>1
    <3>6. (l + ((h + z * 2) % 256) * 64) % 128 = y
      BY <3>1
    <3> QED
      BY <3>2, <3>3, <3>4, <3>5, <3>6
  <2> HIDE DEF F, Got
  <2>4. Got = S(6)
    <3>1. S(5) \in 0 .. 127 /\ S(6) \in 0 .. 127 /\ S(7) \in 0 .. 127
      BY <1>2, <1>4
    <3>2. F(S(5), S(6), S(7)) = S(6)
      BY <2>3, <3>1
    <3> QED
      BY <2>2, <3>2
  <2> QED
    BY <1>6, <1>13, <2>4
<1>14. CASE p = 7
  <2>1. k = 7 * q + 6 /\ k + 1 = 7 * q + 7 /\ 2^r = 2 /\ 2^(8 - r) = 128
    <3>1. 8 - 1 = 7 /\ (7 * q + 6) + 1 = 7 * q + 7
      BY <1>1
    <3> QED
      BY <1>1, <1>5, <1>14, <3>1, Powers
  <2> DEFINE F(x, y, z) ==
        (((((x \div 64) + y * 2) % 256) \div 2) + z * 128) % 128
  <2>2. Got = F(S(6), S(7), Packed(text, 7 * q + 7))
    BY <1>3, <2>1
  <2>3. ASSUME NEW x \in 0 .. 127, NEW y \in 0 .. 127, NEW z \in Nat
        PROVE  F(x, y, z) = y
    OBVIOUS
  <2> HIDE DEF F, Got
  <2>4. Got = S(7)
    <3>1. S(6) \in 0 .. 127 /\ S(7) \in 0 .. 127 /\ Packed(text, 7 * q + 7) \in Nat
      BY <1>2, <1>4
    <3>2. F(S(6), S(7), Packed(text, 7 * q + 7)) = S(7)
      BY <2>3, <3>1
    <3> QED
      BY <2>2, <3>2
  <2> QED
    BY <1>6, <1>14, <2>4
<1> QED
  BY <1>1, <1>7, <1>8, <1>9, <1>10, <1>11, <1>12, <1>13, <1>14

\* Where octets are the packed ones, decode_gsm7 reads the septets packed.
LEMMA DecodedAt ==
  ASSUME NEW text \in Seq(Nat), NEW data, NEW m \in Nat, NEW n \in 1 .. m,
         NEW c \in Nat, \A k \in 0 .. c : At(data, k) = Packed(text, k),
         (7 * (n - 1)) \div 8 + 1 <= c
  PROVE  decode_gsm7(data, m)[n] = At(Septets(text), n - 1)
<1> DEFINE k == (7 * (n - 1)) \div 8
<1> DEFINE r == (7 * (n - 1)) % 8
<1>1. n - 1 \in Nat /\ k \in 0 .. c /\ k + 1 \in 0 .. c
  OBVIOUS
<1>2. decode_gsm7(data, m)[n] =
        ((At(data, k) \div 2^r) + At(data, k + 1) * 2^(8 - r)) % 128
  BY DEF decode_gsm7
<1>3. At(data, k) = Packed(text, k) /\ At(data, k + 1) = Packed(text, k + 1)
  BY <1>1
<1>4. ((Packed(text, k) \div 2^r) + Packed(text, k + 1) * 2^(8 - r)) % 128
        = At(Septets(text), n - 1)
  BY <1>1, Unpacked
<1> QED
  BY <1>2, <1>3, <1>4

\* decode_gsm7 gives septets.
LEMMA DecodedTyped ==
  ASSUME NEW data \in Seq(Nat), NEW m \in Nat
  PROVE  decode_gsm7(data, m) \in Seq(0 .. 127) /\ Len(decode_gsm7(data, m)) = m
<1> DEFINE O(n) == LET bit == 7 * (n - 1)  k == bit \div 8  r == bit % 8 IN
     ((At(data, k) \div 2^r) + At(data, k + 1) * 2^(8 - r)) % 128
<1>1. ASSUME NEW n \in 1 .. m PROVE O(n) \in 0 .. 127
  <2> DEFINE k == (7 * (n - 1)) \div 8
  <2> DEFINE r == (7 * (n - 1)) % 8
  <2>1. k \in Nat /\ k + 1 \in Nat /\ r \in 0 .. 8 /\ 8 - r \in 0 .. 8
    OBVIOUS
  <2> DEFINE a == At(data, k)
  <2> DEFINE b == At(data, k + 1)
  <2> DEFINE x == 2^r
  <2> DEFINE y == 2^(8 - r)
  <2>2. O(n) = ((a \div x) + b * y) % 128
    OBVIOUS
  <2> HIDE DEF k, r
  <2>3. a \in Nat /\ b \in Nat
    BY <2>1 DEF At
  <2>4. x \in Nat \ {0} /\ y \in Nat \ {0}
    BY <2>1, Powers
  <2> HIDE DEF a, b, x, y, O
  <2>5. a \div x \in Int /\ b * y \in Int
    BY <2>3, <2>4
  <2>6. \A u, v \in Int : (u + v) % 128 \in 0 .. 127
    OBVIOUS
  <2> QED
    BY <2>2, <2>5, <2>6
<1>2. decode_gsm7(data, m) = [n \in 1 .. m |-> O(n)]
  BY DEF decode_gsm7
<1> HIDE DEF O
<1>3. decode_gsm7(data, m) \in [1 .. m -> 0 .. 127]
  BY <1>1, <1>2
<1> QED
  BY <1>3, Built

\* encode_gsm7 and decode_gsm7: packing septets eight into seven octets and unpacking
\* them gives every text, of any length, as the alphabet can show it.
THEOREM GsmRoundTrip ==
  ASSUME NEW text \in Seq(Nat)
  PROVE  decode_gsm7(encode_gsm7(text), Len(text)) = AsShown(text)
<1> DEFINE d == decode_gsm7(encode_gsm7(text), Len(text))
<1>1. d \in Seq(0 .. 127) /\ Len(d) = Len(text)
  <2>1. encode_gsm7(text) \in Seq(Nat)
    <3>1. encode_gsm7(text) \in Seq(Octet) /\ Octet \subseteq Nat
      BY PackedOctets DEF Octet
    <3> QED
      BY <3>1, SeqMonotonic
  <2> QED
    BY <2>1, DecodedTyped
<1>2. \A n \in 1 .. Len(text) : d[n] = At(Septets(text), n - 1)
  <2> SUFFICES ASSUME NEW n \in 1 .. Len(text) PROVE d[n] = At(Septets(text), n - 1)
    OBVIOUS
  <2> DEFINE c == (7 * (n - 1)) \div 8 + 1
  <2>1. c \in Nat /\ (7 * (n - 1)) \div 8 + 1 <= c /\ Len(text) \in Nat
    OBVIOUS
  <2>2. \A k \in 0 .. c : At(encode_gsm7(text), k) = Packed(text, k)
    BY PackedOctets
  <2> HIDE DEF c
  <2> QED
    BY <2>1, <2>2, DecodedAt
<1> HIDE DEF d
<1>3. Septets(text) \in Seq(0 .. 127) /\ Len(Septets(text)) = Len(text)
  BY SeptetsTyped
<1>4. \A n \in 1 .. Len(text) : d[n] = Septets(text)[n]
  <2> SUFFICES ASSUME NEW n \in 1 .. Len(text) PROVE d[n] = Septets(text)[n]
    OBVIOUS
  <2>1. n - 1 < Len(Septets(text)) /\ (n - 1) + 1 = n
    BY <1>3
  <2> QED
    BY <1>2, <2>1 DEF At
<1>5. d = Septets(text)
  BY <1>1, <1>3, <1>4, SeqEqual
<1>6. AsShown(text) = Septets(text)
  BY ShownSeptets
<1> QED
  BY <1>5, <1>6 DEF d

-----------------------------------------------------------------------------
(* UCS-2 and BCD. *)

\* UTF-16 in to_bytes and from_bytes: two octets for each character, and back.
THEOREM Ucs2RoundTrip ==
  ASSUME NEW text \in Seq(Nat)
  PROVE  /\ encode_ucs2(text) \in Seq(Nat) /\ Len(encode_ucs2(text)) = 2 * Len(text)
         /\ decode_ucs2(encode_ucs2(text)) = text
<1> DEFINE L == Len(text)
<1> DEFINE e == encode_ucs2(text)
<1>1. L \in Nat /\ \A n \in 1 .. L : text[n] \in Nat
  OBVIOUS
<1>2. e = [k \in 1 .. 2 * L |->
             IF k % 2 = 1 THEN text[(k + 1) \div 2] \div 256 ELSE text[(k + 1) \div 2] % 256]
  BY DEF encode_ucs2
<1>3. \A k \in 1 .. 2 * L : (k + 1) \div 2 \in 1 .. L
  BY <1>1
<1>4. \A x \in Nat : /\ x \div 256 \in Nat /\ x % 256 \in Nat
                      /\ 256 * (x \div 256) + (x % 256) = x
  OBVIOUS
<1> HIDE DEF e, L
<1>5. e \in [1 .. 2 * L -> Nat]
  BY <1>1, <1>2, <1>3, <1>4
<1>6. e \in Seq(Nat) /\ Len(e) = 2 * L
  BY <1>1, <1>5, Built
<1> DEFINE d == [n \in 1 .. L |-> 256 * e[2 * n - 1] + e[2 * n]]
<1>7. (2 * L) \div 2 = L
  BY <1>1
<1>8. decode_ucs2(e) = d \o <<>>
  <2>1. Len(e) % 2 = 0
    BY <1>1, <1>6
  <2> QED
    BY <1>6, <1>7, <2>1 DEF decode_ucs2
<1>9. \A n \in 1 .. L : d[n] = text[n]
  <2> SUFFICES ASSUME NEW n \in 1 .. L PROVE d[n] = text[n]
    OBVIOUS
  <2>1. /\ 2 * n - 1 \in 1 .. 2 * L /\ (2 * n - 1) % 2 = 1 /\ ((2 * n - 1) + 1) \div 2 = n
        /\ 2 * n \in 1 .. 2 * L /\ (2 * n) % 2 # 1 /\ ((2 * n) + 1) \div 2 = n
    BY <1>1
  <2>2. e[2 * n - 1] = text[n] \div 256
    BY <1>2, <2>1
  <2>3. e[2 * n] = text[n] % 256
    BY <1>2, <2>1
  <2>4. text[n] \in Nat
    BY <1>1
  <2> QED
    BY <1>4, <2>2, <2>3, <2>4
<1>10. d \in [1 .. L -> Nat]
  <2>1. \A n \in 1 .. L : 256 * e[2 * n - 1] + e[2 * n] = text[n]
    BY <1>9
  <2> QED
    BY <1>1, <2>1
<1> HIDE DEF d
<1>11. d \in Seq(Nat) /\ Len(d) = L
  BY <1>1, <1>10, Built
<1>12. d = text
  <2>1. Len(d) = Len(text) /\ \A n \in 1 .. Len(d) : d[n] = text[n]
    BY <1>9, <1>11 DEF L
  <2> QED
    BY <1>11, <2>1, SeqEqual
<1>13. d \o <<>> = d
  BY <1>11
<1> QED
  BY <1>6, <1>8, <1>12, <1>13 DEF e, L

\* Digits of nibbles of which the first m are digits and the others are not.
LEMMA DigitsFound ==
  ASSUME NEW nibbles \in Seq(Nat), NEW m \in 0 .. Len(nibbles),
         \A j \in 1 .. m : nibbles[j] <= 9,
         \A j \in m + 1 .. Len(nibbles) : ~ (nibbles[j] <= 9)
  PROVE  Digits(nibbles) = SubSeq(nibbles, 1, m)
<1> DEFINE N == Len(nibbles)
<1> DEFINE Step(f) == [j \in 0 .. N |->
     IF j = 0 THEN <<>>
     ELSE IF nibbles[j] <= 9 THEN Append(f[j - 1], nibbles[j]) ELSE f[j - 1]]
<1> DEFINE kept == CHOOSE f : f = Step(f)
<1> DEFINE g == [j \in 0 .. N |-> SubSeq(nibbles, 1, IF j <= m THEN j ELSE m)]
<1>1. N \in Nat /\ m \in Nat /\ m <= N
  OBVIOUS
<1>2. Digits(nibbles) = kept[N]
  BY DEF Digits
<1>3. g = Step(g)
  <2>1. ASSUME NEW j \in 0 .. N
        PROVE  g[j] = IF j = 0 THEN <<>>
                      ELSE IF nibbles[j] <= 9 THEN Append(g[j - 1], nibbles[j])
                      ELSE g[j - 1]
    <3>1. CASE j = 0
      <4>1. g[0] = SubSeq(nibbles, 1, 0)
        BY <1>1, <3>1
      <4>2. SubSeq(nibbles, 1, 0) = <<>>
        BY SubSeqEmpty
      <4> QED
        BY <3>1, <4>1, <4>2
    <3>2. CASE j # 0 /\ j <= m
      <4>1. j - 1 \in 0 .. N /\ j - 1 <= m /\ j \in 1 .. m /\ j \in 1 .. Len(nibbles)
        BY <1>1, <3>2
      <4>2. g[j] = SubSeq(nibbles, 1, j) /\ g[j - 1] = SubSeq(nibbles, 1, j - 1)
        BY <3>2, <4>1
      <4>3. SubSeq(nibbles, 1, j) = SubSeq(nibbles, 1, j - 1) \o <<nibbles[j]>>
        <5>1. 1 \in 1 .. Len(nibbles) /\ j \in 1 .. Len(nibbles)
          BY <4>1
        <5> QED
          BY <5>1, SubSeqRecursiveSecond
      <4>4. SubSeq(nibbles, 1, j - 1) \in Seq(Nat) /\ nibbles[j] \in Nat
        BY <4>1
      <4>5. Append(SubSeq(nibbles, 1, j - 1), nibbles[j])
              = SubSeq(nibbles, 1, j - 1) \o <<nibbles[j]>>
        BY <4>4, AppendIsConcat
      <4>6. nibbles[j] <= 9
        BY <4>1
      <4> HIDE DEF g
      <4> QED
        BY <3>2, <4>2, <4>3, <4>5, <4>6
    <3>3. CASE j # 0 /\ ~ (j <= m)
      <4>1. j - 1 \in 0 .. N /\ j \in m + 1 .. Len(nibbles)
        BY <1>1, <3>3
      <4>2. g[j] = SubSeq(nibbles, 1, m)
        BY <3>3
      <4>3. j - 1 <= m => j - 1 = m
        BY <1>1, <3>3
      <4>4. g[j - 1] = SubSeq(nibbles, 1, m)
        BY <4>1, <4>3
      <4>5. ~ (nibbles[j] <= 9)
        BY <4>1
      <4> HIDE DEF g
      <4> QED
        BY <3>3, <4>2, <4>4, <4>5
    <3> QED
      BY <3>1, <3>2, <3>3
  <2>2. g = [j \in 0 .. N |-> g[j]]
    OBVIOUS
  <2> HIDE DEF g
  <2> QED
    BY <2>1, <2>2
<1>4. kept = Step(kept)
  <2>1. \E f : f = Step(f)
    BY <1>3
  <2> HIDE DEF g, Step
  <2> QED
    BY <2>1
<1> HIDE DEF kept
<1>5. \A j \in 0 .. N : kept[j] = g[j]
  <2> DEFINE Wrong == {j \in 0 .. N : kept[j] # g[j]}
  <2> SUFFICES ASSUME Wrong # {} PROVE FALSE
    OBVIOUS
  <2>1. Wrong \in SUBSET Nat
    BY <1>1
  <2>2. PICK j \in Wrong : \A i \in Wrong : j <= i
    BY <2>1, LeastNumber
  <2>3. j \in 0 .. N /\ kept[j] # g[j]
    OBVIOUS
  <2>4. j # 0 => kept[j - 1] = g[j - 1]
    <3> SUFFICES ASSUME j # 0 PROVE kept[j - 1] = g[j - 1]
      OBVIOUS
    <3>1. j - 1 \in 0 .. N /\ ~ (j <= j - 1)
      BY <1>1, <2>3
    <3>2. j - 1 \notin Wrong
      BY <2>2, <3>1
    <3> HIDE DEF g
    <3> QED
      BY <3>1, <3>2
  <2>5. kept[j] = Step(kept)[j] /\ g[j] = Step(g)[j]
    BY <1>3, <1>4
  <2> HIDE DEF g, Wrong
  <2> QED
    BY <2>3, <2>4, <2>5
<1>6. g[N] = SubSeq(nibbles, 1, m)
  <2>1. N <= m => N = m
    BY <1>1
  <2> QED
    BY <1>1, <2>1
<1>7. kept[N] = g[N]
  BY <1>1, <1>5
<1> QED
  BY <1>2, <1>6, <1>7

\* Octets of two digits each.
LEMMA BcdTyped ==
  ASSUME NEW d \in Seq(Nat)
  PROVE  /\ encode_bcd(d) \in Seq(Nat) /\ Len(encode_bcd(d)) = (Len(d) + 1) \div 2
         /\ \A k \in 1 .. (Len(d) + 1) \div 2 : encode_bcd(d)[k] =
              d[2 * k - 1] + 16 * (IF 2 * k <= Len(d) THEN d[2 * k] ELSE 15)
<1> DEFINE n == (Len(d) + 1) \div 2
<1>1. n \in Nat
  OBVIOUS
<1>2. ASSUME NEW k \in 1 .. n
      PROVE  d[2 * k - 1] + 16 * (IF 2 * k <= Len(d) THEN d[2 * k] ELSE 15) \in Nat
  <2>1. Len(d) \in Nat /\ \A i \in 1 .. Len(d) : d[i] \in Nat
    OBVIOUS
  <2>2. 2 * k - 1 \in 1 .. Len(d)
    BY <2>1
  <2>3. 2 * k <= Len(d) => 2 * k \in 1 .. Len(d)
    BY <2>1
  <2>4. d[2 * k - 1] \in Nat
    BY <2>1, <2>2
  <2>5. (IF 2 * k <= Len(d) THEN d[2 * k] ELSE 15) \in Nat
    BY <2>1, <2>3
  <2>6. \A x, y \in Nat : x + 16 * y \in Nat
    OBVIOUS
  <2> QED
    BY <2>4, <2>5, <2>6
<1>3. encode_bcd(d) = [k \in 1 .. n |->
        d[2 * k - 1] + 16 * (IF 2 * k <= Len(d) THEN d[2 * k] ELSE 15)]
  BY DEF encode_bcd
<1> HIDE DEF n
<1>4. encode_bcd(d) \in [1 .. n -> Nat]
  BY <1>2, <1>3
<1>5. encode_bcd(d) \in Seq(Nat) /\ Len(encode_bcd(d)) = n
  BY <1>1, <1>4, Built
<1> QED
  BY <1>3, <1>5 DEF n

\* encode_bcd and decode_bcd: digits two to an octet, an odd one with a filler, and back.
THEOREM BcdRoundTrip ==
  ASSUME NEW d \in Seq(0 .. 9)
  PROVE  decode_bcd(encode_bcd(d), Len(d)) = d
<1> DEFINE L == Len(d)
<1> DEFINE e == encode_bcd(d)
<1> DEFINE n == (L + 1) \div 2
<1>1. L \in Nat /\ n \in Nat /\ (2 * n = L \/ 2 * n = L + 1)
  OBVIOUS
<1>2. \A i \in 1 .. L : d[i] \in 0 .. 9
  OBVIOUS
<1>3. e \in Seq(Nat) /\ Len(e) = n
      /\ \A k \in 1 .. n : e[k] = d[2 * k - 1] + 16 * (IF 2 * k <= L THEN d[2 * k] ELSE 15)
  <2>1. 0 .. 9 \subseteq Nat
    OBVIOUS
  <2>2. d \in Seq(Nat)
    BY <2>1, SeqMonotonic
  <2> QED
    BY <2>2, BcdTyped
<1> DEFINE b == Nibbles(e)
<1> HIDE DEF e, n, L
<1>4. b = [j \in 1 .. 2 * n |-> (e[(j + 1) \div 2] \div (IF j % 2 = 1 THEN 1 ELSE 16)) % 16]
  BY <1>3 DEF Nibbles
<1>5. \A j \in 1 .. 2 * n : b[j] = IF j <= L THEN d[j] ELSE 15
  <2> SUFFICES ASSUME NEW j \in 1 .. 2 * n PROVE b[j] = IF j <= L THEN d[j] ELSE 15
    OBVIOUS
  <2> DEFINE k == (j + 1) \div 2
  <2>1. k \in 1 .. n
    BY <1>1
  <2>2. e[k] = d[2 * k - 1] + 16 * (IF 2 * k <= L THEN d[2 * k] ELSE 15)
    BY <1>3, <2>1
  <2>3. d[2 * k - 1] \in 0 .. 9
    <3>1. 2 * k - 1 \in 1 .. L
      BY <1>1
    <3> QED
      BY <1>2, <3>1
  <2>4. (IF 2 * k <= L THEN d[2 * k] ELSE 15) \in 0 .. 15
    <3>1. 2 * k <= L => 2 * k \in 1 .. L
      BY <1>1, <2>1
    <3>2. \A x \in 0 .. 9 : x \in 0 .. 15
      OBVIOUS
    <3> QED
      BY <1>2, <3>1, <3>2
  <2>5. \A x \in 0 .. 9 : \A y \in 0 .. 15 :
          ((x + 16 * y) \div 1) % 16 = x /\ ((x + 16 * y) \div 16) % 16 = y
    OBVIOUS
  <2>6. b[j] = (e[k] \div (IF j % 2 = 1 THEN 1 ELSE 16)) % 16
    BY <1>4
  <2>7. CASE j % 2 = 1
    <3>1. 2 * k - 1 = j /\ j <= L
      BY <1>1, <2>7
    <3>2. b[j] = (e[k] \div 1) % 16
      BY <2>6, <2>7
    <3> DEFINE x == d[2 * k - 1]
    <3> DEFINE y == IF 2 * k <= L THEN d[2 * k] ELSE 15
    <3>4. x \in 0 .. 9 /\ y \in 0 .. 15 /\ b[j] = ((x + 16 * y) \div 1) % 16
      BY <2>2, <2>3, <2>4, <3>2
    <3> HIDE DEF x, y, b
    <3>5. b[j] = x
      BY <2>5, <3>4
    <3> HIDE DEF k
    <3>3. b[j] = d[2 * k - 1]
      BY <3>5 DEF x
    <3> QED
      BY <3>1, <3>3
  <2>8. CASE j % 2 # 1
    <3>1. 2 * k = j
      BY <2>8
    <3>2. b[j] = (e[k] \div 16) % 16
      BY <2>6, <2>8
    <3> DEFINE x == d[2 * k - 1]
    <3> DEFINE y == IF 2 * k <= L THEN d[2 * k] ELSE 15
    <3>4. x \in 0 .. 9 /\ y \in 0 .. 15 /\ b[j] = ((x + 16 * y) \div 16) % 16
      BY <2>2, <2>3, <2>4, <3>2
    <3> HIDE DEF x, y, b
    <3>5. b[j] = y
      BY <2>5, <3>4
    <3> HIDE DEF k
    <3>3. b[j] = IF 2 * k <= L THEN d[2 * k] ELSE 15
      BY <3>5 DEF y
    <3> QED
      BY <3>1, <3>3
  <2> QED
    BY <2>7, <2>8
<1> HIDE DEF b
<1>6. b \in Seq(Nat) /\ Len(b) = 2 * n
  <2>1. \A j \in 1 .. 2 * n : b[j] \in Nat
    <3> SUFFICES ASSUME NEW j \in 1 .. 2 * n PROVE b[j] \in Nat
      OBVIOUS
    <3>1. j <= L => d[j] \in Nat
      BY <1>1, <1>2
    <3> QED
      BY <1>5, <3>1
  <2>2. b = [j \in 1 .. 2 * n |-> b[j]]
    BY <1>4
  <2>3. b \in [1 .. 2 * n -> Nat]
    BY <2>1, <2>2
  <2>4. 2 * n \in Nat
    BY <1>1
  <2> QED
    BY <2>3, <2>4, Built
<1>7. Digits(b) = SubSeq(b, 1, L)
  <2>1. L \in 0 .. Len(b)
    BY <1>1, <1>6
  <2>2. \A j \in 1 .. L : b[j] <= 9
    <3> SUFFICES ASSUME NEW j \in 1 .. L PROVE b[j] <= 9
      OBVIOUS
    <3>1. j \in 1 .. 2 * n /\ j <= L /\ d[j] \in 0 .. 9
      BY <1>1, <1>2
    <3>2. b[j] = d[j]
      BY <1>5, <3>1
    <3> QED
      BY <3>1, <3>2
  <2>3. \A j \in L + 1 .. Len(b) : ~ (b[j] <= 9)
    <3> SUFFICES ASSUME NEW j \in L + 1 .. Len(b) PROVE ~ (b[j] <= 9)
      OBVIOUS
    <3>1. j \in 1 .. 2 * n /\ ~ (j <= L)
      BY <1>1, <1>6
    <3>2. b[j] = 15
      BY <1>5, <3>1
    <3> QED
      BY <3>2
  <2> QED
    BY <1>6, <2>1, <2>2, <2>3, DigitsFound
<1>8. /\ SubSeq(b, 1, L) \in Seq(Nat) /\ Len(SubSeq(b, 1, L)) = L
      /\ \A j \in 1 .. L : SubSeq(b, 1, L)[j] = b[j]
  <2>1. 0 \in Nat /\ L \in 0 .. Len(b) /\ 0 + 1 = 1 /\ L - 0 = L
    BY <1>1, <1>6
  <2>2. /\ SubSeq(b, 0 + 1, L) \in Seq(Nat) /\ Len(SubSeq(b, 0 + 1, L)) = L - 0
        /\ \A k \in 1 .. L - 0 : SubSeq(b, 0 + 1, L)[k] = b[0 + k]
    BY <1>6, <2>1, Portion
  <2>3. \A k \in 1 .. L : 0 + k = k
    BY <1>1
  <2> QED
    BY <2>1, <2>2, <2>3
<1>9. SubSeq(b, 1, L) = d
  <2>1. d \in Seq(Nat) /\ Len(d) = L
    <3>1. 0 .. 9 \subseteq Nat
      OBVIOUS
    <3> QED
      BY <3>1, SeqMonotonic DEF L
  <2>2. \A j \in 1 .. L : b[j] = d[j]
    <3> SUFFICES ASSUME NEW j \in 1 .. L PROVE b[j] = d[j]
      OBVIOUS
    <3>1. j \in 1 .. 2 * n /\ j <= L
      BY <1>1
    <3> QED
      BY <1>5, <3>1
  <2>3. \A j \in 1 .. Len(SubSeq(b, 1, L)) : SubSeq(b, 1, L)[j] = d[j]
    BY <1>8, <2>2
  <2> QED
    BY <1>8, <2>1, <2>3, SeqEqual
<1>10. Slice(d, 0, L) = d
  <2>1. SubSeq(d, 1, Len(d)) = d
    BY SubSeqFull
  <2>2. 0 + 1 = 1 /\ ~ (Len(d) < Len(d))
    OBVIOUS
  <2> QED
    BY <2>1, <2>2 DEF Slice, L
<1> QED
  BY <1>7, <1>9, <1>10 DEF decode_bcd, b, e, L

-----------------------------------------------------------------------------
(* Addresses. *)

\* The octets of a number.
NumberOctets(number, ton) == <<Len(number), 128 + 16 * ton + 1>> \o encode_bcd(number)

\* SMSAddress.to_bytes of a number: its length, its type, then its digits.
LEMMA NumberTyped ==
  ASSUME NEW number \in Seq(Nat), NEW ton \in 0 .. 7
  PROVE  /\ NumberOctets(number, ton) \in Seq(Nat)
         /\ Len(NumberOctets(number, ton)) = 2 + (Len(number) + 1) \div 2
         /\ NumberOctets(number, ton)[1] = Len(number)
         /\ NumberOctets(number, ton)[2] = 128 + 16 * ton + 1
         /\ \A k \in 1 .. (Len(number) + 1) \div 2 :
              NumberOctets(number, ton)[2 + k] = encode_bcd(number)[k]
<1>1. encode_bcd(number) \in Seq(Nat) /\ Len(encode_bcd(number)) = (Len(number) + 1) \div 2
  BY BcdTyped
<1> DEFINE x == 128 + 16 * ton + 1
<1> DEFINE e == encode_bcd(number)
<1>2. Len(number) \in Nat /\ x \in Nat /\ Len(e) \in Nat
  BY <1>1
<1> HIDE DEF x, e
<1>3. <<Len(number), x>> \in Seq(Nat) /\ Len(<<Len(number), x>>) = 2
  BY <1>2
<1>4. /\ <<Len(number), x>> \o e \in Seq(Nat)
      /\ Len(<<Len(number), x>> \o e) = 2 + Len(e)
      /\ (<<Len(number), x>> \o e)[1] = Len(number)
      /\ (<<Len(number), x>> \o e)[2] = x
      /\ \A k \in 1 .. Len(e) : (<<Len(number), x>> \o e)[2 + k] = e[k]
  BY <1>1, <1>2, <1>3 DEF e
<1> QED
  BY <1>1, <1>4 DEF NumberOctets, x, e

\* The type of a number in its octet.
LEMMA TonRead ==
  \A t \in 0 .. 7 : ((128 + 16 * t + 1) \div 16) % 8 = t
OBVIOUS

\* A number is read where it was written.
LEMMA NumberRead ==
  ASSUME NEW X \in Seq(Nat), NEW Y \in Seq(Nat),
         NEW number \in Seq(0 .. 9), NEW ton \in 0 .. 7, ton # Alphanumeric
  PROVE  LET A == NumberOctets(number, ton)  s == X \o A \o Y IN
         /\ AddressEnd(s, Len(X)) = Len(X) + Len(A)
         /\ address_from_bytes(s, Len(X)).ton = ton
         /\ address_from_bytes(s, Len(X)).number = number
<1> DEFINE A == NumberOctets(number, ton)
<1> DEFINE s == X \o A \o Y
<1> DEFINE o == Len(X)
<1> DEFINE n == (Len(number) + 1) \div 2
<1> DEFINE e == encode_bcd(number)
<1>1. number \in Seq(Nat) /\ Len(number) \in Nat /\ o \in Nat /\ n \in Nat
  <2>1. 0 .. 9 \subseteq Nat
    OBVIOUS
  <2>2. number \in Seq(Nat)
    BY <2>1, SeqMonotonic
  <2>3. Len(number) \in Nat /\ o \in Nat
    BY <2>2
  <2>4. \A k \in Nat : (k + 1) \div 2 \in Nat
    OBVIOUS
  <2> QED
    BY <2>2, <2>3, <2>4
<1>2. /\ A \in Seq(Nat) /\ Len(A) = 2 + n /\ A[1] = Len(number) /\ A[2] = 128 + 16 * ton + 1
      /\ \A k \in 1 .. n : A[2 + k] = e[k]
  BY <1>1, NumberTyped
<1>3. e \in Seq(Nat) /\ Len(e) = n
  BY <1>1, BcdTyped
<1> HIDE DEF A, e
<1>4. At(s, o) = Len(number) /\ At(s, o + 1) = 128 + 16 * ton + 1
  <2>1. \A i \in 0 .. Len(A) - 1 : At(s, o + i) = A[i + 1]
    BY <1>2, PartAt
  <2>2. 0 \in 0 .. Len(A) - 1 /\ 1 \in 0 .. Len(A) - 1 /\ o + 0 = o /\ 0 + 1 = 1 /\ 1 + 1 = 2
    BY <1>1, <1>2
  <2> HIDE DEF s, o
  <2>3. At(s, o + 0) = A[0 + 1] /\ At(s, o + 1) = A[1 + 1]
    BY <2>1, <2>2
  <2> QED
    BY <1>2, <2>2, <2>3
<1>5. AddressEnd(s, o) = o + 2 + n
  BY <1>4 DEF AddressEnd
<1>6. ((128 + 16 * ton + 1) \div 16) % 8 = ton
  BY TonRead
<1>7. Slice(s, o + 2, o + 2 + n) = e
  <2>1. 2 \in 0 .. Len(A) /\ Len(A) \in 2 .. Len(A) /\ o + Len(A) = o + 2 + n
    BY <1>1, <1>2
  <2>2. Slice(s, o + 2, o + Len(A)) = SubSeq(A, 2 + 1, Len(A))
    <3> DEFINE F(i, j) == Slice(s, o + i, o + j) = SubSeq(A, i + 1, j)
    <3>1. \A i \in 0 .. Len(A) : \A j \in i .. Len(A) : F(i, j)
      BY <1>2, PartSlice
    <3> HIDE DEF F
    <3>2. F(2, Len(A))
      BY <2>1, <3>1
    <3> QED
      BY <3>2 DEF F
  <2>3. /\ SubSeq(A, 2 + 1, Len(A)) \in Seq(Nat) /\ Len(SubSeq(A, 2 + 1, Len(A))) = Len(A) - 2
        /\ \A k \in 1 .. Len(A) - 2 : SubSeq(A, 2 + 1, Len(A))[k] = A[2 + k]
    <3>1. 2 \in Nat
      OBVIOUS
    <3> QED
      BY <1>2, <2>1, <3>1, Portion
  <2>4. Len(A) - 2 = n
    BY <1>1, <1>2
  <2>5. SubSeq(A, 2 + 1, Len(A)) = e
    BY <1>2, <1>3, <2>3, <2>4, SeqEqual
  <2> QED
    BY <2>1, <2>2, <2>5
<1> HIDE DEF s, o
<1> DEFINE a == address_from_bytes(s, o)
<1>8. a.ton = ton
  BY <1>4, <1>6 DEF address_from_bytes
<1>9. a.number = number
  <2>1. a.number = decode_bcd(e, Len(number))
    BY <1>4, <1>5, <1>6, <1>7 DEF address_from_bytes
  <2>2. decode_bcd(e, Len(number)) = number
    BY BcdRoundTrip DEF e
  <2> QED
    BY <2>1, <2>2
<1>10. AddressEnd(s, o) = o + Len(A)
  BY <1>1, <1>2, <1>5
<1> HIDE DEF a
<1> QED
  BY <1>8, <1>9, <1>10 DEF A, s, o, a

-----------------------------------------------------------------------------
(* What is read from any octets is a sequence of numbers. *)

\* An octet read anywhere is a number.
LEMMA AtTyped ==
  ASSUME NEW s \in Seq(Nat), NEW i \in Nat
  PROVE  At(s, i) \in Nat
<1>1. CASE i < Len(s)
  <2>1. i + 1 \in 1 .. Len(s)
    BY <1>1
  <2>2. s[i + 1] \in Nat
    BY <2>1
  <2> QED
    BY <1>1, <2>2 DEF At
<1>2. CASE ~ (i < Len(s))
  BY <1>2 DEF At
<1> QED
  BY <1>1, <1>2

\* A slice of octets, however it is cut, is a sequence.
LEMMA SliceTyped ==
  ASSUME NEW s \in Seq(Nat), NEW a \in Nat, NEW b \in Nat
  PROVE  Slice(s, a, b) \in Seq(Nat)
<1> DEFINE z == IF b < Len(s) THEN b ELSE Len(s)
<1>1. z \in 0 .. Len(s)
  OBVIOUS
<1> HIDE DEF z
<1>2. \A k \in a + 1 .. z : s[k] \in Nat
  BY <1>1
<1>3. a + 1 \in Int /\ z \in Int
  BY <1>1
<1>4. SubSeq(s, a + 1, z) \in Seq(Nat)
  BY <1>2, <1>3, SubSeqProperties
<1> QED
  BY <1>4 DEF Slice, z

\* Octets of UCS-2, an odd one left over.
LEMMA Ucs2Typed ==
  ASSUME NEW data \in Seq(Nat)
  PROVE  decode_ucs2(data) \in Seq(Nat)
<1> DEFINE n == Len(data) \div 2
<1>1. n \in Nat
  <2>1. Len(data) \in Nat
    OBVIOUS
  <2>2. \A k \in Nat : k \div 2 \in Nat
    OBVIOUS
  <2> QED
    BY <2>1, <2>2
<1>2. ASSUME NEW k \in 1 .. n
      PROVE  256 * data[2 * k - 1] + data[2 * k] \in Nat
  <2>1. 2 * k - 1 \in 1 .. Len(data) /\ 2 * k \in 1 .. Len(data)
    <3>1. Len(data) \in Nat
      OBVIOUS
    <3>2. \A x \in Nat : \A y \in 1 .. x \div 2 : 2 * y - 1 \in 1 .. x /\ 2 * y \in 1 .. x
      OBVIOUS
    <3> QED
      BY <3>1, <3>2
  <2>2. data[2 * k - 1] \in Nat /\ data[2 * k] \in Nat
    BY <2>1
  <2> QED
    BY <2>2
<1> DEFINE d == [k \in 1 .. n |-> 256 * data[2 * k - 1] + data[2 * k]]
<1> DEFINE odd == IF Len(data) % 2 = 1 THEN <<65533>> ELSE <<>>
<1>3. d \in Seq(Nat)
  <2>1. d \in [1 .. n -> Nat]
    BY <1>2
  <2> HIDE DEF d, n
  <2> QED
    BY <1>1, <2>1, Built
<1>4. odd \in Seq(Nat)
  <2>1. <<65533>> \in Seq(Nat) /\ <<>> \in Seq(Nat)
    OBVIOUS
  <2> QED
    BY <2>1
<1>5. decode_ucs2(data) = d \o odd
  BY DEF decode_ucs2
<1> HIDE DEF d, odd
<1> QED
  BY <1>3, <1>4, <1>5

\* decode_gsm7 reads a text from any octets.
LEMMA GsmTyped ==
  ASSUME NEW data \in Seq(Nat), NEW m \in Nat
  PROVE  decode_gsm7(data, m) \in Seq(Nat)
<1>1. decode_gsm7(data, m) \in Seq(0 .. 127) /\ 0 .. 127 \subseteq Nat
  BY DecodedTyped
<1> QED
  BY <1>1, SeqMonotonic

\* SMSSubmit.from_bytes and SMSDeliver.from_bytes read a text from any octets.
LEMMA UserTextTyped ==
  ASSUME NEW data \in Seq(Nat), NEW o \in Nat, NEW dcs
  PROVE  UserText(dcs, data, o) \in Seq(Nat)
<1> DEFINE udl == At(data, o)
<1> DEFINE n == IF dcs = GSM_7BIT THEN (7 * udl + 7) \div 8 ELSE udl
<1>1. udl \in Nat
  BY AtTyped
<1>2. n \in Nat
  <2>1. \A k \in Nat : (7 * k + 7) \div 8 \in Nat
    OBVIOUS
  <2> HIDE DEF udl
  <2> QED
    BY <1>1, <2>1
<1>3. UserData(dcs, data, o) = Slice(data, o + 1, o + 1 + n)
  BY DEF UserData
<1> HIDE DEF n
<1>4. o + 1 \in Nat /\ o + 1 + n \in Nat
  BY <1>2
<1>5. UserData(dcs, data, o) \in Seq(Nat)
  BY <1>3, <1>4, SliceTyped
<1>6. decode_ucs2(UserData(dcs, data, o)) \in Seq(Nat)
  BY <1>5, Ucs2Typed
<1>7. decode_gsm7(UserData(dcs, data, o), udl) \in Seq(Nat)
  BY <1>1, <1>5, GsmTyped
<1>8. <<>> \in Seq(Nat)
  OBVIOUS
<1> QED
  BY <1>6, <1>7, <1>8 DEF UserText

\* The end of an address is a place, whatever its length octet says.
LEMMA AddressEndTyped ==
  ASSUME NEW data \in Seq(Nat), NEW o \in Nat
  PROVE  AddressEnd(data, o) \in Nat
<1>1. At(data, o) \in Nat
  BY AtTyped
<1>2. \A k \in Nat : (k + 1) \div 2 \in Nat
  OBVIOUS
<1>3. (At(data, o) + 1) \div 2 \in Nat
  BY <1>1, <1>2
<1> QED
  BY <1>3 DEF AddressEnd

-----------------------------------------------------------------------------
(* Names instead of numbers. *)

\* Too large for two digits of an octet.
Undialable(n) ==
  /\ n \in Seq(Nat) /\ n # <<>> /\ n[1] >= 16
  /\ Len(n) >= 2 => n[2] >= 16

NameOctets(name) == <<2 * Len(name), 128 + 16 * Alphanumeric + 1>> \o encode_gsm7(name)

\* The letters of a name are septets of their own, none of them a digit.
LEMMA NameSeptets ==
  ASSUME NEW name \in Names
  PROVE  /\ name \in Seq(Nat) /\ Len(name) \in Nat \ {0}
         /\ \A i \in 1 .. Len(name) : name[i] >= 16 /\ At(Septets(name), i - 1) = name[i]
<1> DEFINE Letters == (65 .. 90) \cup (97 .. 122)
<1>1. name \in Seq(Letters) /\ name # <<>> /\ Letters \subseteq Nat
  BY DEF Names
<1>a. \A x \in Letters : x \in Nat /\ x >= 16 /\ x < 128 /\ x # 27
  OBVIOUS
<1> HIDE DEF Letters
<1>2. name \in Seq(Nat)
  BY <1>1, SeqMonotonic
<1>3. Len(name) \in Nat /\ (Len(name) = 0 => name = <<>>)
  BY <1>2
<1>4. ASSUME NEW i \in 1 .. Len(name)
      PROVE  name[i] >= 16 /\ At(Septets(name), i - 1) = name[i]
  <2>1. name[i] \in Letters
    BY <1>1
  <2>2. name[i] \in Nat /\ name[i] >= 16 /\ name[i] < 128 /\ name[i] # 27
    BY <1>a, <2>1
  <2>3. Septets(name)[i] = name[i]
    <3>1. i \in DOMAIN name
      BY <1>2
    <3> QED
      BY <2>2, <3>1 DEF Septets, Escape
  <2>4. Len(Septets(name)) = Len(name)
    BY <1>2, SeptetsTyped
  <2>5. i - 1 < Len(name) /\ i - 1 + 1 = i
    BY <1>3
  <2>6. At(Septets(name), i - 1) = Septets(name)[i - 1 + 1]
    BY <2>4, <2>5 DEF At
  <2> QED
    BY <2>2, <2>3, <2>5, <2>6
<1> QED
  BY <1>1, <1>2, <1>3, <1>4

\* SMSAddress.to_bytes of a name: its length in nibbles, its type, its septets.
LEMMA NameTyped ==
  ASSUME NEW name \in Names
  PROVE  /\ NameOctets(name) \in Seq(Nat)
         /\ Len(NameOctets(name)) = 2 + (7 * Len(name) + 7) \div 8
         /\ NameOctets(name)[1] = 2 * Len(name)
         /\ NameOctets(name)[2] = 209
         /\ \A k \in 1 .. (7 * Len(name) + 7) \div 8 :
              NameOctets(name)[2 + k] = Packed(name, k - 1)
<1> DEFINE n == (7 * Len(name) + 7) \div 8
<1> DEFINE e == encode_gsm7(name)
<1> DEFINE l == 2 * Len(name)
<1>1. name \in Seq(Nat) /\ Len(name) \in Nat /\ l \in Nat
  BY NameSeptets
<1>2. e \in Seq(Nat) /\ Len(e) = n /\ \A k \in Nat : At(e, k) = Packed(name, k)
  <2>1. e \in Seq(Octet) /\ Octet \subseteq Nat
    BY <1>1, PackedOctets DEF Octet
  <2> HIDE DEF e
  <2>2. e \in Seq(Nat)
    BY <2>1, SeqMonotonic
  <2> QED
    BY <1>1, <2>2, PackedOctets DEF e
<1>3. 128 + 16 * Alphanumeric + 1 = 209
  BY DEF Alphanumeric
<1> HIDE DEF e, l
<1>4. Len(e) \in Nat
  BY <1>2
<1>5. ASSUME NEW k \in 1 .. Len(e) PROVE e[k] = Packed(name, k - 1)
  <2>1. k - 1 \in Nat /\ k - 1 < Len(e) /\ k - 1 + 1 = k
    BY <1>4
  <2>2. At(e, k - 1) = Packed(name, k - 1)
    BY <1>2, <2>1
  <2>3. At(e, k - 1) = e[k - 1 + 1]
    BY <2>1 DEF At
  <2> QED
    BY <2>1, <2>2, <2>3
<1>6. <<l, 209>> \in Seq(Nat) /\ Len(<<l, 209>>) = 2
  BY <1>1
<1> DEFINE x == <<l, 209>> \o e
<1>7. /\ x \in Seq(Nat) /\ Len(x) = 2 + Len(e) /\ x[1] = l /\ x[2] = 209
      /\ \A k \in 1 .. Len(e) : x[2 + k] = e[k]
  BY <1>2, <1>4, <1>6
<1>8. NameOctets(name) = x
  BY <1>3 DEF NameOctets, l, e
<1> HIDE DEF x
<1>9. ASSUME NEW k \in 1 .. Len(e) PROVE x[2 + k] = Packed(name, k - 1)
  <2>1. x[2 + k] = e[k]
    BY <1>7
  <2>2. e[k] = Packed(name, k - 1)
    BY <1>5
  <2> QED
    BY <2>1, <2>2
<1>10. x \in Seq(Nat) /\ Len(x) = 2 + Len(e) /\ x[1] = l /\ x[2] = 209
  BY <1>7
<1>11. NameOctets(name) = x /\ Len(e) = n
  BY <1>2, <1>8
<1> HIDE DEF n
<1>12. /\ x \in Seq(Nat) /\ Len(x) = 2 + n /\ x[1] = l /\ x[2] = 209
       /\ \A k \in 1 .. n : x[2 + k] = Packed(name, k - 1)
  BY <1>9, <1>10, <1>11
<1> QED
  BY <1>11, <1>12 DEF l, n

\* What is cut out, at each of its octets.
LEMMA SliceAt ==
  ASSUME NEW s \in Seq(Nat), NEW a \in Nat, NEW b \in Nat, NEW k \in Nat
  PROVE  At(Slice(s, a, b), k) = IF a + k < b THEN At(s, a + k) ELSE 0
<1> DEFINE z == IF b < Len(s) THEN b ELSE Len(s)
<1>1. z \in Nat /\ z <= b /\ z <= Len(s) /\ (z < b => z = Len(s)) /\ Len(s) \in Nat
  OBVIOUS
<1> HIDE DEF z
<1>2. Slice(s, a, b) = SubSeq(s, a + 1, z)
  BY DEF Slice, z
<1>3. CASE a <= z
  <2>1. z \in a .. Len(s)
    BY <1>1, <1>3
  <2>2. /\ Len(SubSeq(s, a + 1, z)) = z - a
        /\ \A j \in 1 .. z - a : SubSeq(s, a + 1, z)[j] = s[a + j]
    BY <2>1, Portion
  <2>3. CASE a + k < z
    <3>1. k + 1 \in 1 .. z - a /\ k < z - a /\ a + k < Len(s) /\ a + k < b
      BY <1>1, <2>3
    <3>2. a + (k + 1) = (a + k) + 1
      OBVIOUS
    <3>a. SubSeq(s, a + 1, z)[k + 1] = s[a + (k + 1)]
      BY <2>2, <3>1
    <3>3. At(SubSeq(s, a + 1, z), k) = s[a + k + 1]
      BY <2>2, <3>1, <3>2, <3>a DEF At
    <3>4. At(s, a + k) = s[a + k + 1]
      BY <3>1 DEF At
    <3> QED
      BY <1>2, <3>1, <3>3, <3>4
  <2>4. CASE ~ (a + k < z)
    <3>1. ~ (k < z - a)
      BY <1>1, <1>3, <2>4
    <3>2. At(SubSeq(s, a + 1, z), k) = 0
      BY <2>2, <3>1 DEF At
    <3>3. a + k < b => ~ (a + k < Len(s))
      BY <1>1, <2>4
    <3> QED
      BY <1>2, <3>2, <3>3 DEF At
  <2> QED
    BY <2>3, <2>4
<1>4. CASE ~ (a <= z)
  <2>1. SubSeq(s, a + 1, z) = <<>>
    BY <1>1, <1>4, SubSeqEmpty
  <2>2. Len(<<>>) = 0 /\ ~ (k < 0)
    OBVIOUS
  <2>3. At(<<>>, k) = 0
    BY <2>2 DEF At
  <2>4. a + k < b => ~ (a + k < Len(s))
    BY <1>1, <1>4
  <2> QED
    BY <1>2, <2>1, <2>3, <2>4 DEF At
<1> QED
  BY <1>3, <1>4

\* A name begins with the characters it was written with, wherever it ends.
LEMMA NameRead ==
  ASSUME NEW X \in Seq(Nat), NEW Y \in Seq(Nat), NEW name \in Names
  PROVE  LET a == address_from_bytes(X \o NameOctets(name) \o Y, Len(X)) IN
         a.ton = Alphanumeric /\ Undialable(a.number)
<1> DEFINE A == NameOctets(name)
<1> DEFINE s == X \o A \o Y
<1> DEFINE o == Len(X)
<1> DEFINE L == Len(name)
<1> DEFINE n == (7 * L + 7) \div 8
<1> DEFINE M == (4 * (2 * L)) \div 7
<1>1. name \in Seq(Nat) /\ L \in Nat \ {0}
  BY NameSeptets
<1>2. /\ n \in Nat \ {0} /\ (L >= 2 => n >= 2)
      /\ M \in Nat \ {0} /\ (M >= 2 => L >= 2)
      /\ (2 * L + 1) \div 2 = L
  <2>1. \A x \in Nat \ {0} : /\ (7 * x + 7) \div 8 \in Nat \ {0}
                             /\ x >= 2 => (7 * x + 7) \div 8 >= 2
                             /\ (4 * (2 * x)) \div 7 \in Nat \ {0}
                             /\ (4 * (2 * x)) \div 7 >= 2 => x >= 2
                             /\ (2 * x + 1) \div 2 = x
    OBVIOUS
  <2> HIDE DEF L
  <2> QED
    BY <1>1, <2>1
<1>3. /\ A \in Seq(Nat) /\ Len(A) = 2 + n /\ A[1] = 2 * L /\ A[2] = 209
      /\ \A k \in 1 .. n : A[2 + k] = Packed(name, k - 1)
  BY NameTyped
<1> HIDE DEF A, n, M
<1>4. /\ s \in Seq(Nat) /\ o \in Nat
      /\ \A i \in 0 .. Len(A) - 1 : At(s, o + i) = A[i + 1]
  BY <1>3, PartAt
<1> HIDE DEF s, o
<1>5. At(s, o) = 2 * L /\ At(s, o + 1) = 209
  <2>1. 0 \in 0 .. Len(A) - 1 /\ 1 \in 0 .. Len(A) - 1 /\ o + 0 = o /\ 0 + 1 = 1 /\ 1 + 1 = 2
    BY <1>2, <1>3, <1>4
  <2>2. At(s, o + 0) = A[0 + 1] /\ At(s, o + 1) = A[1 + 1]
    BY <1>4, <2>1
  <2> QED
    BY <1>3, <2>1, <2>2
<1>6. (209 \div 16) % 8 = 5
  OBVIOUS
<1> DEFINE g == Slice(s, o + 2, o + 2 + L)
<1>7. AddressEnd(s, o) = o + 2 + L
  BY <1>2, <1>5 DEF AddressEnd
<1>8. g \in Seq(Nat)
  <2>1. o + 2 \in Nat /\ o + 2 + L \in Nat
    BY <1>1, <1>4
  <2> QED
    BY <1>4, <2>1, SliceTyped
<1>9. \A k \in 0 .. 1 : At(g, k) = Packed(name, k)
  <2>1. ASSUME NEW k \in 0 .. 1 PROVE At(g, k) = Packed(name, k)
    <3>1. k \in Nat /\ o + 2 \in Nat /\ o + 2 + L \in Nat /\ (o + 2) + k = o + (2 + k)
      BY <1>1, <1>4
    <3>2. At(g, k) = IF (o + 2) + k < o + 2 + L THEN At(s, (o + 2) + k) ELSE 0
      BY <1>4, <3>1, SliceAt
    <3>3. CASE k < L
      <4>1. (o + 2) + k < o + 2 + L
        BY <1>1, <1>4, <3>3
      <4>2. k = 0 \/ (k = 1 /\ L >= 2)
        <5>1. \A x \in Nat : \A j \in 0 .. 1 : j < x => j = 0 \/ (j = 1 /\ x >= 2)
          OBVIOUS
        <5> HIDE DEF L
        <5> QED
          BY <1>1, <3>3, <5>1
      <4>3. k + 1 \in 1 .. n /\ 2 + k \in 0 .. Len(A) - 1 /\ 2 + (k + 1) = (2 + k) + 1
            /\ (k + 1) - 1 = k
        BY <1>2, <1>3, <4>2
      <4>4. At(s, o + (2 + k)) = A[(2 + k) + 1]
        BY <1>4, <4>3
      <4>5. A[2 + (k + 1)] = Packed(name, (k + 1) - 1)
        BY <1>3, <4>3
      <4> QED
        BY <3>1, <3>2, <4>1, <4>3, <4>4, <4>5
    <3>4. CASE ~ (k < L)
      <4>1. ~ ((o + 2) + k < o + 2 + L)
        BY <1>1, <1>4, <3>4
      <4>2. k = 1 /\ L = 1
        <5>1. \A x \in Nat \ {0} : \A j \in 0 .. 1 : ~ (j < x) => j = 1 /\ x = 1
          OBVIOUS
        <5> HIDE DEF L
        <5> QED
          BY <1>1, <3>4, <5>1
      <4>3. 1 >= (7 * Len(name) + 7) \div 8
        BY <4>2 DEF L
      <4>4. Packed(name, 1) = 0
        BY <1>1, <4>3, PackedPast
      <4> QED
        BY <3>2, <4>1, <4>2, <4>4
    <3> QED
      BY <3>3, <3>4
  <2> QED
    BY <2>1
<1> DEFINE a == address_from_bytes(s, o)
<1>10. a.ton = Alphanumeric /\ a.number = decode_gsm7(g, M)
  <2>1. a.ton = 5 /\ Alphanumeric = 5
    BY <1>5, <1>6 DEF address_from_bytes, Alphanumeric
  <2>2. a.number = decode_gsm7(g, (4 * At(s, o)) \div 7)
    BY <1>5, <1>6, <1>7 DEF address_from_bytes, Alphanumeric
  <2> QED
    BY <1>5, <2>1, <2>2 DEF M
<1> HIDE DEF g
<1> DEFINE u == decode_gsm7(g, M)
<1>11. u \in Seq(0 .. 127) /\ Len(u) = M /\ u \in Seq(Nat)
  BY <1>2, <1>8, DecodedTyped, GsmTyped
<1>12. u[1] = At(Septets(name), 1 - 1)
  <2>1. PICK c \in Nat : c = 1
    OBVIOUS
  <2>2. PICK i \in 1 .. M : i = 1
    BY <1>2
  <2>3. (7 * (i - 1)) \div 8 + 1 <= c
    BY <2>1, <2>2
  <2>4. \A k \in 0 .. c : At(g, k) = Packed(name, k)
    BY <1>9, <2>1
  <2>5. M \in Nat
    BY <1>2
  <2>6. decode_gsm7(g, M)[i] = At(Septets(name), i - 1)
    BY <1>1, <2>3, <2>4, <2>5, DecodedAt
  <2> QED
    BY <2>2, <2>6
<1>13. ASSUME M >= 2 PROVE u[2] = At(Septets(name), 2 - 1)
  <2>1. PICK c \in Nat : c = 1
    OBVIOUS
  <2>2. PICK i \in 1 .. M : i = 2
    BY <1>2, <1>13
  <2>3. (7 * (i - 1)) \div 8 + 1 <= c
    BY <2>1, <2>2
  <2>4. \A k \in 0 .. c : At(g, k) = Packed(name, k)
    BY <1>9, <2>1
  <2>5. M \in Nat
    BY <1>2
  <2>6. decode_gsm7(g, M)[i] = At(Septets(name), i - 1)
    BY <1>1, <2>3, <2>4, <2>5, DecodedAt
  <2> QED
    BY <2>2, <2>6
<1>14. u[1] >= 16
  <2>1. 1 \in 1 .. Len(name)
    BY <1>1
  <2> QED
    BY <1>12, <2>1, NameSeptets
<1>15. ASSUME M >= 2 PROVE u[2] >= 16
  <2>1. 2 \in 1 .. Len(name)
    BY <1>1, <1>2, <1>15
  <2> QED
    BY <1>13, <1>15, <2>1, NameSeptets
<1>16. u # <<>>
  BY <1>2, <1>11
<1> HIDE DEF u
<1>17. Undialable(u)
  BY <1>11, <1>14, <1>15, <1>16 DEF Undialable
<1> QED
  BY <1>10, <1>17 DEF s, A, o, u

\* What is read of an address that was written.
SameAddress(a, b) ==
  /\ b.ton = a.ton
  /\ IF a.ton = Alphanumeric THEN Undialable(b.number) ELSE b.number = a.number

\* SMSAddress.from_bytes reads back what SMSAddress.to_bytes wrote, and ends where it
\* ended; of a name something is read that is no number.
LEMMA AddressRead ==
  ASSUME NEW X \in Seq(Nat), NEW Y \in Seq(Nat), NEW a \in Addresses
  PROVE  LET A == address_to_bytes(a)  s == X \o A \o Y IN
         /\ A \in Seq(Nat)
         /\ SameAddress(a, address_from_bytes(s, Len(X)))
         /\ a.ton # Alphanumeric => AddressEnd(s, Len(X)) = Len(X) + Len(A)
<1>1. CASE a.ton # Alphanumeric
  <2>1. a.number \in Seq(0 .. 9) /\ a.ton \in 0 .. 7
    BY <1>1 DEF Addresses, Numbers
  <2>2. address_to_bytes(a) = NumberOctets(a.number, a.ton)
    BY <1>1 DEF address_to_bytes, NumberOctets
  <2>3. a.number \in Seq(Nat)
    <3>1. 0 .. 9 \subseteq Nat
      OBVIOUS
    <3> QED
      BY <2>1, <3>1, SeqMonotonic
  <2> DEFINE nb == a.number
  <2> DEFINE ty == a.ton
  <2> DEFINE O == NumberOctets(nb, ty)
  <2> HIDE DEF nb, ty
  <2>4. O \in Seq(Nat)
    BY <2>1, <2>3, NumberTyped DEF nb, ty
  <2>5. /\ AddressEnd(X \o O \o Y, Len(X)) = Len(X) + Len(O)
        /\ address_from_bytes(X \o O \o Y, Len(X)).ton = ty
        /\ address_from_bytes(X \o O \o Y, Len(X)).number = nb
    <3>1. nb \in Seq(0 .. 9) /\ ty \in 0 .. 7 /\ ty # Alphanumeric
      BY <1>1, <2>1 DEF nb, ty
    <3> DEFINE R(number, ton) ==
           LET N == NumberOctets(number, ton) IN
           /\ AddressEnd(X \o N \o Y, Len(X)) = Len(X) + Len(N)
           /\ address_from_bytes(X \o N \o Y, Len(X)).ton = ton
           /\ address_from_bytes(X \o N \o Y, Len(X)).number = number
    <3>2. \A number \in Seq(0 .. 9) : \A ton \in 0 .. 7 : ton # Alphanumeric => R(number, ton)
      BY NumberRead
    <3> HIDE DEF R
    <3>3. R(nb, ty)
      BY <3>1, <3>2
    <3> QED
      BY <3>3 DEF R
  <2>6. address_to_bytes(a) = O
    BY <2>2 DEF nb, ty
  <2> HIDE DEF O
  <2> QED
    BY <1>1, <2>4, <2>5, <2>6 DEF SameAddress, nb, ty
<1>2. CASE a.ton = Alphanumeric
  <2>1. a.number \in Names
    BY <1>2 DEF Addresses
  <2>2. address_to_bytes(a) = NameOctets(a.number)
    BY <1>2 DEF address_to_bytes, NameOctets
  <2> QED
    BY <1>2, <2>1, <2>2, NameTyped, NameRead DEF SameAddress
<1> QED
  BY <1>1, <1>2

-----------------------------------------------------------------------------
(* TPDUs: first octets, address, identifier and coding, time, length, data. *)

Tpdu(H, A, pid, dcs, V, u, D) == H \o A \o <<pid, dcs>> \o V \o <<u>> \o D

\* Where each part of s lies.
Placed(s, H, A, pid, dcs, V, u, D) ==
  LET o == Len(H) + Len(A)
      end == o + 2 + Len(V)
  IN  /\ s \in Seq(Nat) /\ Len(s) = end + 1 + Len(D)
      /\ \A i \in 0 .. Len(H) - 1 : At(s, i) = H[i + 1]
      /\ \E Y \in Seq(Nat) : s = H \o A \o Y
      /\ At(s, o) = pid /\ At(s, o + 1) = dcs
      /\ Slice(s, o + 2, end) = V
      /\ At(s, end) = u
      /\ Slice(s, end + 1, end + 1 + Len(D)) = D

\* Octets one after the other.
LEMMA Joined ==
  ASSUME NEW a \in Seq(Nat), NEW b \in Seq(Nat)
  PROVE  a \o b \in Seq(Nat) /\ Len(a \o b) = Len(a) + Len(b)
OBVIOUS

\* How octets are grouped does not matter.
LEMMA Regrouped ==
  ASSUME NEW a \in Seq(Nat), NEW b \in Seq(Nat), NEW c \in Seq(Nat)
  PROVE  (a \o b) \o c = a \o (b \o c)
BY ConcatAssociative

\* Where the fields of a TPDU are.
LEMMA Layout ==
  ASSUME NEW H \in Seq(Nat), NEW A \in Seq(Nat), NEW pid \in Nat, NEW dcs \in Nat,
         NEW V \in Seq(Nat), NEW u \in Nat, NEW D \in Seq(Nat)
  PROVE  Placed(Tpdu(H, A, pid, dcs, V, u, D), H, A, pid, dcs, V, u, D)
<1> DEFINE s == Tpdu(H, A, pid, dcs, V, u, D)
<1> DEFINE o == Len(H) + Len(A)
<1> DEFINE end == o + 2 + Len(V)
<1> DEFINE Q == <<pid, dcs>>
<1> DEFINE U == <<u>>
<1> DEFINE P1 == H \o A
<1> DEFINE P2 == P1 \o Q
<1> DEFINE P3 == P2 \o V
<1> DEFINE P4 == P3 \o U
<1> DEFINE R3 == U \o D
<1> DEFINE R2 == V \o R3
<1> DEFINE R1 == Q \o R2
<1> DEFINE R0 == A \o R1
<1>a. Q \in Seq(Nat)
  OBVIOUS
<1>b. U \in Seq(Nat)
  OBVIOUS
<1>0. Len(Q) = 2 /\ Q[1] = pid /\ Q[2] = dcs /\ Len(U) = 1 /\ U[1] = u
  OBVIOUS
<1>1. s = P4 \o D
  BY DEF Tpdu
<1>c. P1 \in Seq(Nat)
  BY Joined
<1>2. Len(P1) = o /\ o \in Nat
  BY Joined
<1> HIDE DEF s, P1, o, Q, U
<1>d. P2 \in Seq(Nat)
  BY <1>a, <1>c, Joined
<1>3. Len(P2) = o + 2
  BY <1>a, <1>c, <1>0, <1>2, Joined
<1> HIDE DEF P2
<1>e. P3 \in Seq(Nat)
  BY <1>d, Joined
<1>4. Len(P3) = end /\ end \in Nat
  <2>1. Len(P3) = Len(P2) + Len(V)
    BY <1>d, Joined
  <2>2. Len(V) \in Nat
    OBVIOUS
  <2> QED
    BY <1>2, <1>3, <2>1, <2>2
<1> HIDE DEF P3, end
<1>f. P4 \in Seq(Nat)
  BY <1>b, <1>e, Joined
<1>5. Len(P4) = end + 1
  BY <1>b, <1>e, <1>0, <1>4, Joined
<1> HIDE DEF P4
<1>6. R3 \in Seq(Nat)
  BY <1>b, Joined
<1> HIDE DEF R3
<1>7. R2 \in Seq(Nat)
  BY <1>6, Joined
<1> HIDE DEF R2
<1>8. R1 \in Seq(Nat)
  BY <1>a, <1>7, Joined
<1> HIDE DEF R1
<1>9. R0 \in Seq(Nat)
  BY <1>8, Joined
<1> HIDE DEF R0
<1>10. s = P3 \o U \o D
  BY <1>1 DEF P4
<1>11. s = P2 \o V \o R3
  <2>1. s = P3 \o R3
    BY <1>b, <1>e, <1>10, Regrouped DEF R3
  <2> QED
    BY <2>1 DEF P3
<1>12. s = P1 \o Q \o R2
  <2>1. s = P2 \o R2
    BY <1>d, <1>6, <1>11, Regrouped DEF R2
  <2> QED
    BY <2>1 DEF P2
<1>13. s = H \o A \o R1
  <2>1. s = P1 \o R1
    BY <1>a, <1>c, <1>7, <1>12, Regrouped DEF R1
  <2> QED
    BY <2>1 DEF P1
<1>14. s = <<>> \o H \o R0
  <2>1. s = H \o R0
    BY <1>8, <1>13, Regrouped DEF R0
  <2>2. <<>> \o H = H
    OBVIOUS
  <2> QED
    BY <2>1, <2>2
<1>15. s = P4 \o D \o <<>>
  <2>1. P4 \o D \in Seq(Nat)
    BY <1>f
  <2>2. (P4 \o D) \o <<>> = P4 \o D
    BY <2>1
  <2> QED
    BY <1>1, <2>2
<1>16. s \in Seq(Nat) /\ Len(s) = end + 1 + Len(D)
  BY <1>1, <1>5, <1>f, Joined
<1>17. \A i \in 0 .. Len(H) - 1 : At(s, i) = H[i + 1]
  <2> DEFINE Z == <<>>
  <2>1. Z \in Seq(Nat)
    OBVIOUS
  <2>2. \A i \in 0 .. Len(H) - 1 : Len(Z) + i = i
    OBVIOUS
  <2>3. s = Z \o H \o R0
    BY <1>14
  <2> HIDE DEF Z
  <2>4. \A i \in 0 .. Len(H) - 1 : At(s, Len(Z) + i) = H[i + 1]
    BY <1>9, <2>1, <2>3, PartAt
  <2> QED
    BY <2>2, <2>4
<1>18. At(s, o) = Q[1] /\ At(s, o + 1) = Q[2]
  <2>1. \A i \in 0 .. Len(Q) - 1 : At(s, Len(P1) + i) = Q[i + 1]
    BY <1>a, <1>c, <1>7, <1>12, PartAt
  <2>2. 0 \in 0 .. Len(Q) - 1 /\ 1 \in 0 .. Len(Q) - 1 /\ o + 0 = o /\ 0 + 1 = 1 /\ 1 + 1 = 2
    BY <1>0, <1>2
  <2>3. At(s, o + 0) = Q[0 + 1] /\ At(s, o + 1) = Q[1 + 1]
    BY <1>2, <2>1, <2>2
  <2> QED
    BY <2>2, <2>3
<1>19. Slice(s, o + 2, end) = V
  <2>1. Slice(s, Len(P2), Len(P2) + Len(V)) = V
    BY <1>d, <1>6, <1>11, PartWhole
  <2> QED
    BY <1>3, <2>1 DEF end
<1>20. At(s, end) = U[1]
  <2>1. \A i \in 0 .. Len(U) - 1 : At(s, Len(P3) + i) = U[i + 1]
    BY <1>b, <1>e, <1>10, PartAt
  <2>2. 0 \in 0 .. Len(U) - 1 /\ end + 0 = end /\ 0 + 1 = 1
    BY <1>0, <1>4
  <2>3. At(s, end + 0) = U[0 + 1]
    BY <1>4, <2>1, <2>2
  <2> QED
    BY <2>2, <2>3
<1>21. Slice(s, end + 1, end + 1 + Len(D)) = D
  <2>1. <<>> \in Seq(Nat)
    OBVIOUS
  <2>2. Slice(s, Len(P4), Len(P4) + Len(D)) = D
    BY <1>f, <1>15, <2>1, PartWhole
  <2> QED
    BY <1>5, <2>2
<1> QED
  BY <1>8, <1>13, <1>16, <1>17, <1>18, <1>19, <1>20, <1>21, <1>0 DEF s, o, end, Placed

-----------------------------------------------------------------------------
(* User data. *)

Codings == {GSM_7BIT, UCS2}
Encoded(dcs, text) == IF dcs = UCS2 THEN encode_ucs2(text) ELSE encode_gsm7(text)
Extent(dcs, text) == IF dcs = UCS2 THEN 2 * Len(text) ELSE Len(text)

\* encode_gsm7 replaces a character of a text by one, and replaces nothing twice.
LEMMA ShownTyped ==
  ASSUME NEW text \in Seq(Nat)
  PROVE  /\ AsShown(text) \in Seq(Nat) /\ Len(AsShown(text)) = Len(text)
         /\ AsShown(AsShown(text)) = AsShown(text)
<1>1. Septets(text) \in Seq(0 .. 127) /\ 0 .. 127 \subseteq Nat
  BY SeptetsTyped
<1>2. Septets(text) \in Seq(Nat)
  BY <1>1, SeqMonotonic
<1>3. AsShown(text) = Septets(text) /\ Len(Septets(text)) = Len(text)
  BY ShownSeptets, SeptetsTyped
<1> DEFINE a == AsShown(text)
<1>4. a \in Seq(Nat)
  BY <1>2, <1>3
<1>5. \A i \in DOMAIN a : a[i] \in (0 .. 127) \ {Escape}
  <2>1. DOMAIN a = DOMAIN text
    BY DEF AsShown
  <2>2. QuestionMark \in (0 .. 127) \ {Escape}
    BY DEF QuestionMark, Escape
  <2>3. \A i \in DOMAIN text : a[i] = IF text[i] \in (0 .. 127) \ {Escape} THEN text[i]
                                       ELSE QuestionMark
    BY DEF AsShown
  <2> HIDE DEF a
  <2> QED
    BY <2>1, <2>2, <2>3
<1>6. AsShown(a) = [i \in DOMAIN a |-> a[i]]
  <2> HIDE DEF a
  <2> QED
    BY <1>5 DEF AsShown
<1>7. a = [i \in DOMAIN a |-> a[i]]
  BY DEF AsShown
<1> QED
  BY <1>3, <1>4, <1>6, <1>7

\* The octets of a text, their length, and the text that is read of them.
LEMMA EncodedTyped ==
  ASSUME NEW text \in Seq(Nat), NEW dcs \in Codings
  PROVE  /\ Encoded(dcs, text) \in Seq(Nat) /\ Extent(dcs, text) \in Nat
         /\ Len(Encoded(dcs, text)) = IF dcs = GSM_7BIT THEN (7 * Extent(dcs, text) + 7) \div 8
                                      ELSE Extent(dcs, text)
         /\ Encoded(dcs, text) = <<>> <=> text = <<>>
         /\ AsCoded(dcs, text) \in Seq(Nat) /\ Len(AsCoded(dcs, text)) = Len(text)
         /\ AsShown(AsCoded(dcs, text)) = AsShown(text)
<1>1. Len(text) \in Nat /\ (text = <<>> <=> Len(text) = 0)
  OBVIOUS
<1>2. CASE dcs = UCS2
  <2>1. dcs # GSM_7BIT
    BY <1>2 DEF GSM_7BIT, UCS2
  <2>2. encode_ucs2(text) \in Seq(Nat)
    BY Ucs2RoundTrip
  <2>3. Len(encode_ucs2(text)) = 2 * Len(text)
    BY Ucs2RoundTrip
  <2>4. encode_ucs2(text) = <<>> <=> Len(encode_ucs2(text)) = 0
    BY <2>2
  <2>5. encode_ucs2(text) = <<>> <=> text = <<>>
    BY <1>1, <2>3, <2>4
  <2>6. 2 * Len(text) \in Nat
    BY <1>1
  <2> QED
    BY <1>2, <2>1, <2>2, <2>3, <2>5, <2>6 DEF Encoded, Extent, AsCoded
<1>3. CASE dcs = GSM_7BIT
  <2>1. dcs # UCS2
    BY <1>3 DEF GSM_7BIT, UCS2
  <2>2. encode_gsm7(text) \in Seq(Nat)
    <3>1. encode_gsm7(text) \in Seq(Octet) /\ Octet \subseteq Nat
      BY PackedOctets DEF Octet
    <3> QED
      BY <3>1, SeqMonotonic
  <2>3. Len(encode_gsm7(text)) = (7 * Len(text) + 7) \div 8
    BY PackedOctets
  <2>4. encode_gsm7(text) = <<>> <=> Len(encode_gsm7(text)) = 0
    BY <2>2
  <2>5. \A n \in Nat : (7 * n + 7) \div 8 = 0 <=> n = 0
    OBVIOUS
  <2>6. encode_gsm7(text) = <<>> <=> text = <<>>
    BY <1>1, <2>3, <2>4, <2>5
  <2>7. /\ AsShown(text) \in Seq(Nat) /\ Len(AsShown(text)) = Len(text)
        /\ AsShown(AsShown(text)) = AsShown(text)
    BY ShownTyped
  <2> QED
    BY <1>1, <1>3, <2>1, <2>2, <2>3, <2>6, <2>7 DEF Encoded, Extent, AsCoded
<1> QED
  BY <1>2, <1>3 DEF Codings

\* A text, or what was read with the data it came in, is encoded the same.
LEMMA Written ==
  ASSUME NEW text \in Seq(Nat), NEW dcs \in Codings, NEW m, m.dcs = dcs,
         \/ m.text = text /\ m.data = <<>>
         \/ m.text = AsCoded(dcs, text) /\ m.data = Encoded(dcs, text)
  PROVE  EncodedData(m) = Encoded(dcs, text) /\ UserDataLength(m) = Extent(dcs, text)
<1> DEFINE e == Encoded(dcs, text)
<1> DEFINE c == AsCoded(dcs, text)
<1>1. /\ e = <<>> <=> text = <<>>
      /\ Len(e) = IF dcs = GSM_7BIT THEN (7 * Extent(dcs, text) + 7) \div 8
                  ELSE Extent(dcs, text)
      /\ Len(c) = Len(text)
  BY EncodedTyped
<1>2. c = <<>> <=> text = <<>>
  <2>1. c \in Seq(Nat)
    BY EncodedTyped
  <2> HIDE DEF c
  <2>2. c = <<>> <=> Len(c) = 0
    BY <2>1
  <2>3. text = <<>> <=> Len(text) = 0
    OBVIOUS
  <2> QED
    BY <1>1, <2>2, <2>3
<1> HIDE DEF c
<1>3. EncodedData(m) = e
  <2>1. CASE m.text = text /\ m.data = <<>>
    <3>1. dcs = UCS2 \/ (dcs = GSM_7BIT /\ dcs # UCS2)
      BY DEF Codings, UCS2, GSM_7BIT
    <3>2. text = <<>> => e = <<>>
      BY <1>1
    <3> QED
      BY <2>1, <3>1, <3>2 DEF EncodedData, Encoded
  <2>2. CASE m.text = c /\ m.data = e
    <3>1. c = <<>> \/ e # <<>>
      BY <1>1, <1>2
    <3> HIDE DEF e
    <3> QED
      BY <2>2, <3>1 DEF EncodedData
  <2> QED
    BY <2>1, <2>2 DEF c
<1>4. UserDataLength(m) = Extent(dcs, text)
  <2>1. CASE dcs # GSM_7BIT
    BY <1>1, <1>3, <2>1 DEF UserDataLength
  <2>2. CASE dcs = GSM_7BIT /\ text # <<>>
    <3>1. m.text # <<>> /\ Len(m.text) = Len(text)
      BY <1>1, <1>2, <2>2 DEF c
    <3>2. dcs # UCS2
      BY <2>2 DEF GSM_7BIT, UCS2
    <3> QED
      BY <2>2, <3>1, <3>2 DEF UserDataLength, Extent
  <2>3. CASE dcs = GSM_7BIT /\ text = <<>>
    <3>1. m.text = <<>> /\ EncodedData(m) = <<>>
      BY <1>1, <1>2, <1>3, <2>3 DEF c
    <3>2. dcs # UCS2
      BY <2>3 DEF GSM_7BIT, UCS2
    <3>3. Len(<<>>) = 0 /\ (0 * 8) \div 7 = 0
      OBVIOUS
    <3> QED
      BY <2>3, <3>1, <3>2, <3>3 DEF UserDataLength, Extent
  <2> QED
    BY <2>1, <2>2, <2>3
<1> QED
  BY <1>3, <1>4

\* from_bytes reads back the user data that to_bytes wrote.
LEMMA UserRead ==
  ASSUME NEW text \in Seq(Nat), NEW dcs \in Codings, NEW s \in Seq(Nat), NEW end \in Nat,
         At(s, end) = Extent(dcs, text),
         Slice(s, end + 1, end + 1 + Len(Encoded(dcs, text))) = Encoded(dcs, text)
  PROVE  /\ UserData(dcs, s, end) = Encoded(dcs, text)
         /\ UserText(dcs, s, end) = AsCoded(dcs, text)
<1>1. UserData(dcs, s, end) = Encoded(dcs, text)
  <2> DEFINE e == Encoded(dcs, text)
  <2> DEFINE n == IF dcs = GSM_7BIT THEN (7 * At(s, end) + 7) \div 8 ELSE At(s, end)
  <2>1. Len(e) = n
    BY EncodedTyped
  <2>2. UserData(dcs, s, end) = Slice(s, end + 1, end + 1 + n)
    BY DEF UserData
  <2> HIDE DEF e, n
  <2> QED
    BY <2>1, <2>2 DEF e
<1>2. CASE dcs = UCS2
  BY <1>1, <1>2, Ucs2RoundTrip DEF UserText, Encoded, AsCoded
<1>3. CASE dcs = GSM_7BIT
  <2>1. dcs # UCS2
    BY <1>3 DEF GSM_7BIT, UCS2
  <2> QED
    BY <1>1, <1>3, <2>1, GsmRoundTrip DEF UserText, Encoded, AsCoded, Extent
<1> QED
  BY <1>2, <1>3 DEF Codings

\* bytes() returns its argument, or raises.
LEMMA OctetsTyped ==
  ASSUME NEW x \in Seq(Nat), NEW t \in Octets(x)
  PROVE  t = x /\ t \in Seq(Octet) /\ t \in Seq(Nat)
<1>1. t = x /\ \A i \in DOMAIN x : x[i] \in Octet
  BY DEF Octets
<1>2. Len(x) \in Nat /\ DOMAIN x = 1 .. Len(x) /\ x = [i \in 1 .. Len(x) |-> x[i]]
  OBVIOUS
<1>3. x \in [1 .. Len(x) -> Octet]
  BY <1>1, <1>2
<1>4. x \in Seq(Octet)
  BY <1>2, <1>3, Built
<1> QED
  BY <1>1, <1>4

\* SMSAddress.international makes an address of a number.
LEMMA InternationalAddress ==
  ASSUME NEW n \in Numbers
  PROVE  International(n) \in Addresses /\ International(n).number = n
         /\ International(n).ton = 1 /\ International(n).ton # Alphanumeric
  BY DEF International, Addresses, Alphanumeric

\* No flag is set.
LEMMA NoFlags == FlagBits({}) = 0
  BY DEF FlagBits

\* SMSDeliver.from_bytes reads an address and a text from any octets.
LEMMA DeliverTyped ==
  ASSUME NEW data \in Seq(Nat), NEW d \in deliver_from_bytes(data)
  PROVE  d.address = address_from_bytes(data, 1) /\ d.text \in Seq(Nat)
<1> DEFINE o == AddressEnd(data, 1)
<1> DEFINE dcs == 4 * ((At(data, o + 1) \div 4) % 4)
<1>1. o \in Nat
  <2>1. 1 \in Nat
    OBVIOUS
  <2> QED
    BY <2>1, AddressEndTyped
<1>2. d.address = address_from_bytes(data, 1) /\ d.text = UserText(dcs, data, o + 9)
  BY DEF deliver_from_bytes
<1> HIDE DEF o, dcs
<1>3. o + 9 \in Nat
  BY <1>1
<1> QED
  BY <1>2, <1>3, UserTextTyped

\* The coding in its octet.
LEMMA CodingRead ==
  ASSUME NEW dcs \in Codings
  PROVE  dcs \in Nat /\ 4 * ((dcs \div 4) % 4) = dcs /\ dcs # 12
<1>1. 4 * ((0 \div 4) % 4) = 0 /\ 4 * ((8 \div 4) % 4) = 8
  OBVIOUS
<1> QED
  BY <1>1 DEF Codings, GSM_7BIT, UCS2

\* A message for this phone, of a network or of another phone.
Delivery(m, a, dcs, text) ==
  /\ m.address = a /\ m.pid = 0 /\ m.dcs = dcs /\ m.flags = {}
  /\ m.time = <<0, 0, 0, 0, 0, 0, 0>>
  /\ \/ m.text = text /\ m.data = <<>>
     \/ m.text = AsCoded(dcs, text) /\ m.data = Encoded(dcs, text)

\* The fields that SMSDeliver.to_bytes writes.
LEMMA DeliverOctets ==
  ASSUME NEW a \in Addresses, NEW dcs \in Codings, NEW text \in Seq(Nat), NEW m,
         Delivery(m, a, dcs, text)
  PROVE  LET x == Tpdu(<<0>>, address_to_bytes(a), 0, dcs, <<0, 0, 0, 0, 0, 0, 0>>,
                       Extent(dcs, text), Encoded(dcs, text))
         IN  deliver_to_bytes(m) = Octets(x) /\ x \in Seq(Nat)
<1> DEFINE A == address_to_bytes(a)
<1> DEFINE V == <<0, 0, 0, 0, 0, 0, 0>>
<1> DEFINE e == Encoded(dcs, text)
<1> DEFINE u == Extent(dcs, text)
<1>1. EncodedData(m) = e /\ UserDataLength(m) = u
  BY Written DEF Delivery
<1>2. A \in Seq(Nat)
  <2>1. <<>> \in Seq(Nat)
    OBVIOUS
  <2> QED
    BY <2>1, AddressRead
<1>3. e \in Seq(Nat)
  BY EncodedTyped
<1>4. u \in Nat
  BY EncodedTyped
<1>5. dcs \in Nat
  BY CodingRead
<1>6. V \in Seq(Nat)
  OBVIOUS
<1>7. <<0>> \in Seq(Nat)
  OBVIOUS
<1>8. deliver_to_bytes(m) = Octets(Tpdu(<<0>>, A, 0, dcs, V, u, e))
  BY <1>1, NoFlags DEF deliver_to_bytes, Delivery, Tpdu
<1> HIDE DEF A, V, e, u
<1>9. 0 \in Nat
  OBVIOUS
<1>10. Tpdu(<<0>>, A, 0, dcs, V, u, e) \in Seq(Nat)
  BY <1>2, <1>3, <1>4, <1>5, <1>6, <1>7, <1>9, Layout DEF Placed
<1> QED
  BY <1>8, <1>10 DEF A, V, e, u

\* What a phone reads of a message for it.
LEMMA DeliverRead ==
  ASSUME NEW a \in Addresses, NEW dcs \in Codings, NEW text \in Seq(Nat), NEW m,
         Delivery(m, a, dcs, text), NEW t \in deliver_to_bytes(m)
  PROVE  /\ t \in Seq(Octet)
         /\ a.ton # Alphanumeric => deliver_from_bytes(t) # {}
         /\ \A d \in deliver_from_bytes(t) :
              /\ SameAddress(a, d.address) /\ d.text \in Seq(Nat)
              /\ a.ton # Alphanumeric => d.text = AsCoded(dcs, text)
<1> DEFINE A == address_to_bytes(a)
<1> DEFINE H == <<0>>
<1> DEFINE V == <<0, 0, 0, 0, 0, 0, 0>>
<1> DEFINE e == Encoded(dcs, text)
<1> DEFINE u == Extent(dcs, text)
<1> DEFINE x == Tpdu(H, A, 0, dcs, V, u, e)
<1>1. deliver_to_bytes(m) = Octets(x)
  BY DeliverOctets
<1>2. x \in Seq(Nat)
  BY DeliverOctets
<1>3. t = x /\ t \in Seq(Octet)
  BY <1>1, <1>2, OctetsTyped
<1>4. A \in Seq(Nat)
  <2>1. <<>> \in Seq(Nat)
    OBVIOUS
  <2> QED
    BY <2>1, AddressRead
<1>5. e \in Seq(Nat)
  BY EncodedTyped
<1>6. u \in Nat
  BY EncodedTyped
<1>7. V \in Seq(Nat)
  OBVIOUS
<1>8. H \in Seq(Nat)
  OBVIOUS
<1>9. dcs \in Nat
  BY CodingRead
<1>b. 0 \in Nat
  OBVIOUS
<1>10. Len(H) = 1 /\ Len(V) = 7
  OBVIOUS
<1> HIDE DEF A, H, V, e, u
<1> DEFINE o == Len(H) + Len(A)
<1> DEFINE end == o + 2 + Len(V)
<1>c. Placed(x, H, A, 0, dcs, V, u, e)
  BY <1>4, <1>5, <1>6, <1>7, <1>8, <1>9, <1>b, Layout
<1> HIDE DEF x
<1>11. /\ Len(x) = end + 1 + Len(e)
       /\ \E Y \in Seq(Nat) : x = H \o A \o Y
       /\ At(x, o + 1) = dcs
       /\ At(x, end) = u
       /\ Slice(x, end + 1, end + 1 + Len(e)) = e
  BY <1>c DEF Placed
<1> HIDE DEF end
<1>12. PICK Y \in Seq(Nat) : t = H \o A \o Y
  BY <1>3, <1>11
<1>13. /\ SameAddress(a, address_from_bytes(t, 1))
       /\ a.ton # Alphanumeric => AddressEnd(t, 1) = o
  <2>1. SameAddress(a, address_from_bytes(H \o A \o Y, Len(H)))
    BY <1>8, AddressRead DEF A
  <2>2. a.ton # Alphanumeric => AddressEnd(H \o A \o Y, Len(H)) = Len(H) + Len(A)
    BY <1>8, AddressRead DEF A
  <2> QED
    BY <1>10, <1>12, <2>1, <2>2
<1>14. t \in Seq(Nat)
  BY <1>2, <1>3
<1>15. ASSUME NEW d \in deliver_from_bytes(t)
       PROVE  SameAddress(a, d.address) /\ d.text \in Seq(Nat)
  BY <1>13, <1>14, DeliverTyped
<1>16. Len(A) \in Nat /\ Len(e) \in Nat
  BY <1>4, <1>5
<1>17. o \in Nat
  BY <1>10, <1>16
<1> HIDE DEF o
<1>18. ASSUME a.ton # Alphanumeric
       PROVE  /\ deliver_from_bytes(t) # {}
              /\ \A d \in deliver_from_bytes(t) : d.text = AsCoded(dcs, text)
  <2>1. AddressEnd(t, 1) = o
    BY <1>13, <1>18
  <2>2. 4 * ((At(t, o + 1) \div 4) % 4) = dcs /\ dcs # 12
    BY <1>3, <1>11, CodingRead
  <2>3. /\ o + 9 < Len(t) /\ At(t, o + 9) = u
        /\ Slice(t, o + 9 + 1, o + 9 + 1 + Len(e)) = e /\ o + 9 \in Nat
    <3>1. end = o + 9
      BY <1>10, <1>17 DEF end
    <3>2. o + 9 < o + 9 + 1 + Len(e) /\ o + 9 \in Nat
      BY <1>16, <1>17
    <3> QED
      BY <1>3, <1>11, <3>1, <3>2
  <2>4. UserText(dcs, t, o + 9) = AsCoded(dcs, text)
    BY <1>14, <2>3, UserRead DEF u, e
  <2>5. address_from_bytes(t, 1).ton # 7
    <3>1. a.ton # 7
      BY DEF Addresses, Alphanumeric
    <3> QED
      BY <1>13, <3>1 DEF SameAddress
  <2>6. Readable(t, o + 9, address_from_bytes(t, 1).ton, dcs)
    BY <2>2, <2>3, <2>5 DEF Readable
  <2>7. deliver_from_bytes(t) # {}
    <3>1. Readable(t, AddressEnd(t, 1) + 9, address_from_bytes(t, 1).ton,
                   4 * ((At(t, AddressEnd(t, 1) + 1) \div 4) % 4))
      BY <2>1, <2>2, <2>6
    <3> QED
      BY <3>1 DEF deliver_from_bytes
  <2>8. ASSUME NEW d \in deliver_from_bytes(t) PROVE d.text = UserText(dcs, t, o + 9)
    BY <2>1, <2>2 DEF deliver_from_bytes
  <2> QED
    BY <2>4, <2>7, <2>8
<1> QED
  BY <1>3, <1>15, <1>18

\* What the network reads of a message of this phone.
LEMMA SubmitRead ==
  ASSUME NEW n \in Numbers, NEW dcs \in Codings, NEW text \in Seq(Nat),
         NEW t \in submit_to_bytes(submit_create(n, text, dcs, 0))
  PROVE  /\ t \in Seq(Octet)
         /\ \A d \in submit_from_bytes(t) :
              /\ d.address.number = n /\ d.dcs = dcs
              /\ d.text = AsCoded(dcs, text) /\ d.data = Encoded(dcs, text)
<1> DEFINE a == International(n)
<1> DEFINE A == address_to_bytes(a)
<1> DEFINE H == <<1, 0>>
<1> DEFINE V == <<>>
<1> DEFINE e == Encoded(dcs, text)
<1> DEFINE u == Extent(dcs, text)
<1> DEFINE x == Tpdu(H, A, 0, dcs, V, u, e)
<1> DEFINE m == submit_create(n, text, dcs, 0)
<1>a. a \in Addresses /\ a.number = n /\ a.ton = 1 /\ a.ton # Alphanumeric
  BY InternationalAddress
<1>1. submit_to_bytes(m) = Octets(x)
  <2>1. m.dcs = dcs /\ m.text = text /\ m.data = <<>>
    BY DEF submit_create
  <2>2. EncodedData(m) = e /\ UserDataLength(m) = u
    BY <2>1, Written
  <2>3. /\ m.ref = 0 /\ m.address = a /\ m.pid = 0 /\ m.dcs = dcs /\ m.vp = -1
        /\ m.flags = {}
    BY DEF submit_create
  <2> HIDE DEF m, a, e, u
  <2>4. 1 + 0 + 0 = 1 /\ 0 % 256 = 0
    OBVIOUS
  <2> QED
    BY <2>2, <2>3, <2>4, NoFlags DEF submit_to_bytes, Tpdu
<1> HIDE DEF a
<1>4. A \in Seq(Nat)
  <2>1. <<>> \in Seq(Nat)
    OBVIOUS
  <2> QED
    BY <1>a, <2>1, AddressRead
<1>5. e \in Seq(Nat)
  BY EncodedTyped
<1>6. u \in Nat
  BY EncodedTyped
<1>7. V \in Seq(Nat)
  OBVIOUS
<1>8. H \in Seq(Nat)
  OBVIOUS
<1>9. dcs \in Nat
  BY CodingRead
<1>b. 0 \in Nat
  OBVIOUS
<1>10. Len(H) = 2 /\ Len(V) = 0 /\ 0 \in 0 .. Len(H) - 1 /\ H[0 + 1] = 1
  OBVIOUS
<1> HIDE DEF A, H, V, e, u, m
<1>2. x \in Seq(Nat)
  BY <1>4, <1>5, <1>6, <1>7, <1>8, <1>9, <1>b, Layout DEF Placed
<1>3. t = x /\ t \in Seq(Octet)
  <2>1. t \in Octets(x)
    BY <1>1 DEF m
  <2> QED
    BY <1>2, <2>1, OctetsTyped
<1> DEFINE o == Len(H) + Len(A)
<1> DEFINE end == o + 2 + Len(V)
<1>c. Placed(x, H, A, 0, dcs, V, u, e)
  BY <1>4, <1>5, <1>6, <1>7, <1>8, <1>9, <1>b, Layout
<1> HIDE DEF x
<1>11. /\ Len(x) = end + 1 + Len(e)
       /\ \A i \in 0 .. Len(H) - 1 : At(x, i) = H[i + 1]
       /\ \E Y \in Seq(Nat) : x = H \o A \o Y
       /\ At(x, o + 1) = dcs
       /\ At(x, end) = u
       /\ Slice(x, end + 1, end + 1 + Len(e)) = e
  BY <1>c DEF Placed
<1> HIDE DEF end
<1>12. PICK Y \in Seq(Nat) : t = H \o A \o Y
  BY <1>3, <1>11
<1>13. SameAddress(a, address_from_bytes(t, 2)) /\ AddressEnd(t, 2) = o
  <2>1. SameAddress(a, address_from_bytes(H \o A \o Y, Len(H)))
    BY <1>8, <1>a, AddressRead DEF A
  <2>2. AddressEnd(H \o A \o Y, Len(H)) = Len(H) + Len(A)
    BY <1>8, <1>a, AddressRead DEF A
  <2> QED
    BY <1>10, <1>12, <2>1, <2>2
<1>14. t \in Seq(Nat)
  BY <1>2, <1>3
<1>15. At(t, 0) = 1
  BY <1>3, <1>10, <1>11
<1>16. Len(A) \in Nat /\ Len(e) \in Nat
  BY <1>4, <1>5
<1>17. o \in Nat
  BY <1>10, <1>16
<1> HIDE DEF o
<1>18. (1 \div 8) % 4 = 0
  OBVIOUS
<1>19. 4 * ((At(t, o + 1) \div 4) % 4) = dcs
  BY <1>3, <1>11, CodingRead
<1>20. /\ At(t, o + 2) = u /\ Slice(t, o + 2 + 1, o + 2 + 1 + Len(e)) = e
       /\ o + 2 \in Nat
  <2>1. end = o + 2 /\ o + 2 \in Nat
    BY <1>10, <1>17 DEF end
  <2> QED
    BY <1>3, <1>11, <2>1
<1>21. UserText(dcs, t, o + 2) = AsCoded(dcs, text) /\ UserData(dcs, t, o + 2) = e
  BY <1>14, <1>20, UserRead DEF u, e
<1>22. ASSUME NEW d \in submit_from_bytes(t)
       PROVE  /\ d.address = address_from_bytes(t, 2) /\ d.dcs = dcs
              /\ d.text = UserText(dcs, t, o + 2) /\ d.data = UserData(dcs, t, o + 2)
  <2>1. o + 2 + 0 = o + 2
    BY <1>17
  <2> QED
    BY <1>13, <1>15, <1>18, <1>19, <2>1 DEF submit_from_bytes
<1>23. address_from_bytes(t, 2).number = n
  BY <1>a, <1>13 DEF SameAddress
<1> QED
  BY <1>3, <1>21, <1>22, <1>23 DEF e

-----------------------------------------------------------------------------
(* RP-DATA and PDUs of the RIL. *)

\* What follows the first octets.
LEMMA RestRead ==
  ASSUME NEW P \in Seq(Nat), NEW t \in Seq(Nat)
  PROVE  /\ P \o t \in Seq(Nat) /\ Len(P \o t) = Len(P) + Len(t)
         /\ \A i \in 0 .. Len(P) - 1 : At(P \o t, i) = P[i + 1]
         /\ Slice(P \o t, Len(P), Len(P) + Len(t)) = t
<1> DEFINE s == P \o t
<1>1. s \in Seq(Nat)
  BY Joined
<1>2. Len(s) = Len(P) + Len(t)
  BY Joined
<1>3. \A i \in 0 .. Len(P) - 1 : At(s, i) = P[i + 1]
  <2>1. ASSUME NEW i \in 0 .. Len(P) - 1 PROVE At(s, i) = P[i + 1]
    <3>1. Len(P) \in Nat /\ Len(t) \in Nat
      OBVIOUS
    <3>2. i < Len(s)
      BY <1>2, <3>1
    <3>3. i + 1 \in 1 .. Len(P)
      BY <3>1
    <3>4. s[i + 1] = P[i + 1]
      BY <3>3
    <3> QED
      BY <3>2, <3>4 DEF At
  <2> QED
    BY <2>1
<1>4. Slice(s, Len(P), Len(P) + Len(t)) = t
  <2> DEFINE Z == <<>>
  <2>1. Z \in Seq(Nat)
    OBVIOUS
  <2>2. s \o Z = s
    BY <1>1
  <2> HIDE DEF Z
  <2>3. Slice(P \o t \o Z, Len(P), Len(P) + Len(t)) = t
    BY <2>1, PartWhole
  <2> QED
    BY <2>2, <2>3
<1> QED
  BY <1>1, <1>2, <1>3, <1>4

\* A sequence and one more element.
LEMMA OneMore ==
  ASSUME NEW p \in Seq(Nat), NEW x \in Nat, NEW w \in Seq(Nat), Len(w) = Len(p) + 1,
         \A i \in 1 .. Len(p) : w[i] = p[i], w[Len(p) + 1] = x
  PROVE  p \o <<x>> = w
<1>1. Append(p, x) = p \o <<x>>
  BY AppendIsConcat
<1>2. Append(p, x) \in Seq(Nat)
  OBVIOUS
<1>3. Len(Append(p, x)) = Len(p) + 1
  OBVIOUS
<1>4. \A i \in 1 .. Len(p) + 1 : Append(p, x)[i] = w[i]
  OBVIOUS
<1>5. Append(p, x) = w
  BY <1>2, <1>3, <1>4, SeqEqual
<1> QED
  BY <1>1, <1>5

\* The octets before the TPDU.
LEMMA HeaderOctets ==
  ASSUME NEW a \in Nat, NEW r \in Nat, NEW l \in Nat
  PROVE  <<a, r, 0>> \o <<>> \o <<0>> \o <<>> \o <<l>> = <<a, r, 0, 0, l>>
<1>1. <<a, r, 0>> \o <<>> = <<a, r, 0>>
  OBVIOUS
<1>3. <<a, r, 0, 0>> \o <<>> = <<a, r, 0, 0>>
  OBVIOUS
<1> DEFINE o == <<a, r, 0>>
<1> DEFINE p == <<a, r, 0, 0>>
<1> DEFINE w == <<a, r, 0, 0, l>>
<1>a. o \in Seq(Nat)
  OBVIOUS
<1>b. p \in Seq(Nat)
  OBVIOUS
<1>c. w \in Seq(Nat)
  OBVIOUS
<1>4. Len(o) = 3 /\ Len(p) = 4 /\ Len(w) = 5 /\ p[3 + 1] = 0 /\ w[4 + 1] = l
  OBVIOUS
<1>5. \A i \in 1 .. 3 : p[i] = o[i]
  OBVIOUS
<1>6. \A i \in 1 .. 4 : w[i] = p[i]
  OBVIOUS
<1>7. 0 \in Nat /\ 3 + 1 = 4 /\ 4 + 1 = 5
  OBVIOUS
<1> HIDE DEF o, p, w
<1>8. o \o <<0>> = p
  BY <1>a, <1>b, <1>4, <1>5, <1>7, OneMore
<1>9. p \o <<l>> = w
  BY <1>b, <1>c, <1>4, <1>6, <1>7, OneMore
<1> QED
  BY <1>1, <1>3, <1>8, <1>9 DEF o, p, w

\* The octets of an RP-DATA message with this TPDU.
RpHolds(b, type, t) == \E x : rp_from_bytes(b) = {x} /\ x.type = type /\ x.tpdu = t

\* RPData.from_bytes reads back the TPDU that RPData.to_bytes wrote.
LEMMA RpRead ==
  ASSUME NEW type \in 0 .. 1, NEW ref \in Nat, NEW t \in Seq(Nat),
         NEW b \in rp_to_bytes(wrap(type, t, ref))
  PROVE  /\ b \in Seq(Octet)
         /\ RpHolds(b, type, t)
<1> DEFINE L == Len(t)
<1> DEFINE r == ref % 256
<1> DEFINE P == <<type, r, 0, 0, L>>
<1>1. L \in Nat /\ r \in Nat /\ type \in Nat
  OBVIOUS
<1>2. rp_to_bytes(wrap(type, t, ref)) = Octets(P \o t)
  <2> DEFINE m == wrap(type, t, ref)
  <2>1. /\ m.type = type /\ m.ref = ref /\ m.tpdu = t
        /\ m.originator = <<>> /\ m.destination = <<>>
    BY DEF wrap
  <2>2. <<type, r, 0>> \o <<>> \o <<0>> \o <<>> \o <<L>> = P
    <3> HIDE DEF L, r
    <3> QED
      BY <1>1, HeaderOctets
  <2>3. Len(<<>>) = 0
    OBVIOUS
  <2> HIDE DEF m, P, L, r
  <2>4. rp_to_bytes(m) = Octets(<<type, r, 0>> \o <<>> \o <<0>> \o <<>> \o <<L>> \o t)
    BY <2>1, <2>3 DEF rp_to_bytes, L, r
  <2> QED
    BY <2>2, <2>4 DEF m
<1> HIDE DEF L, r
<1>3. P \in Seq(Nat)
  BY <1>1
<1>4. /\ Len(P) = 5 /\ P[0 + 1] = type /\ P[1 + 1] = r /\ P[2 + 1] = 0 /\ P[3 + 1] = 0
      /\ P[4 + 1] = L
  OBVIOUS
<1> HIDE DEF P
<1> DEFINE s == P \o t
<1>5. s \in Seq(Nat)
  BY <1>3, RestRead
<1>6. /\ Len(s) = 5 + L
      /\ \A i \in 0 .. Len(P) - 1 : At(s, i) = P[i + 1]
      /\ Slice(s, 5, 5 + L) = t
  BY <1>3, <1>4, RestRead DEF L
<1> HIDE DEF s
<1>7. b = s /\ b \in Seq(Octet)
  BY <1>2, <1>5, OctetsTyped DEF s
<1>8. At(b, 0) = type /\ At(b, 2) = 0 /\ At(b, 3) = 0 /\ At(b, 4) = L
  <2>1. /\ 0 \in 0 .. Len(P) - 1 /\ 2 \in 0 .. Len(P) - 1 /\ 3 \in 0 .. Len(P) - 1
        /\ 4 \in 0 .. Len(P) - 1
    BY <1>4
  <2> QED
    BY <1>4, <1>6, <1>7, <2>1
<1>9. DestinationAt(b) = 3
  BY <1>8 DEF DestinationAt
<1>10. ~ (4 >= Len(b)) /\ ~ (type > 5)
  BY <1>1, <1>6, <1>7
<1>11. 3 + 1 + 0 = 4 /\ 4 + 1 = 5 /\ 4 + 1 + L = 5 + L
  BY <1>1
<1>12. rp_from_bytes(b) =
         {[type |-> type, ref |-> At(b, 1), originator |-> Slice(b, 3, 3),
           destination |-> Slice(b, 4, 4), tpdu |-> t]}
  BY <1>6, <1>7, <1>8, <1>9, <1>10, <1>11 DEF rp_from_bytes
<1> DEFINE x == [type |-> type, ref |-> At(b, 1), originator |-> Slice(b, 3, 3),
                 destination |-> Slice(b, 4, 4), tpdu |-> t]
<1>13. x.type = type /\ x.tpdu = t
  OBVIOUS
<1>14. rp_from_bytes(b) = {x}
  BY <1>12
<1> HIDE DEF x
<1> QED
  BY <1>7, <1>13, <1>14 DEF RpHolds

\* parse_pdu_from_ril takes off what build_pdu_for_ril put on.
LEMMA RilRead ==
  ASSUME NEW t \in Seq(Octet)
  PROVE  /\ parse_pdu_from_ril(build_pdu_for_ril(t, <<>>)) = {t}
         /\ build_pdu_for_ril(t, <<>>) \in Seq(Octet)
<1> DEFINE P == <<0>>
<1> DEFINE s == P \o t
<1>1. t \in Seq(Nat)
  <2>1. Octet \subseteq Nat
    BY DEF Octet
  <2> QED
    BY <2>1, SeqMonotonic
<1>2. build_pdu_for_ril(t, <<>>) = s
  <2>1. Len(<<>>) = 0 /\ <<0>> \o <<>> = <<0>>
    OBVIOUS
  <2> QED
    BY <2>1 DEF build_pdu_for_ril
<1>3. P \in Seq(Nat)
  OBVIOUS
<1>4. Len(P) = 1 /\ P[0 + 1] = 0 /\ 0 \in 0 .. Len(P) - 1
  OBVIOUS
<1>5. s \in Seq(Octet)
  <2>1. P \in Seq(Octet)
    BY DEF Octet
  <2> QED
    BY <2>1
<1> HIDE DEF P
<1>6. /\ Len(s) = 1 + Len(t)
      /\ \A i \in 0 .. Len(P) - 1 : At(s, i) = P[i + 1]
      /\ Slice(s, 1, 1 + Len(t)) = t
  BY <1>1, <1>3, <1>4, RestRead
<1>7. At(s, 0) = 0
  BY <1>4, <1>6
<1>8. s # <<>>
  <2>1. Len(t) \in Nat
    OBVIOUS
  <2>2. Len(s) # 0
    BY <1>6, <2>1
  <2>3. Len(<<>>) = 0
    OBVIOUS
  <2> QED
    BY <2>2, <2>3
<1> HIDE DEF s
<1>9. 1 + 0 = 1
  OBVIOUS
<1> QED
  BY <1>2, <1>5, <1>6, <1>7, <1>8, <1>9 DEF parse_pdu_from_ril

-----------------------------------------------------------------------------
(* What Android is given. *)

\* deliver_incoming_sms makes a delivery of its number and text.
LEMMA IncomingIsDelivery ==
  ASSUME NEW n, NEW text
  PROVE  Delivery(deliver_create(International(n), text, GSM_7BIT), International(n),
                  GSM_7BIT, text)
  BY DEF Delivery, deliver_create

\* Android shows the text under its number.
LEMMA IncomingShown ==
  ASSUME NEW n \in Numbers, NEW text \in Seq(Nat), NEW pdu \in deliver_incoming_sms(n, text)
  PROVE  ShownOf(pdu) = {[number |-> n, text |-> AsShown(text)]}
<1> DEFINE a == International(n)
<1> DEFINE m == deliver_create(a, text, GSM_7BIT)
<1>1. PICK t \in deliver_to_bytes(m) : pdu = build_pdu_for_ril(t, <<>>)
  BY DEF deliver_incoming_sms
<1>2. a \in Addresses /\ a.number = n /\ a.ton # Alphanumeric
  BY InternationalAddress
<1>3. Delivery(m, a, GSM_7BIT, text)
  BY IncomingIsDelivery
<1>4. GSM_7BIT \in Codings /\ GSM_7BIT # UCS2
  BY DEF Codings, GSM_7BIT, UCS2
<1> HIDE DEF a, m
<1>5. t \in Seq(Octet)
  BY <1>2, <1>3, <1>4, DeliverRead
<1>6. deliver_from_bytes(t) # {}
  BY <1>2, <1>3, <1>4, DeliverRead
<1>7. ASSUME NEW d \in deliver_from_bytes(t)
      PROVE  d.address.number = n /\ d.text = AsShown(text)
  <2>1. SameAddress(a, d.address) /\ d.text = AsCoded(GSM_7BIT, text)
    BY <1>2, <1>3, <1>4, DeliverRead
  <2> QED
    BY <1>2, <1>4, <2>1 DEF SameAddress, AsCoded
<1>8. parse_pdu_from_ril(pdu) = {t}
  BY <1>1, <1>5, RilRead
<1>9. UNION {deliver_from_bytes(x) : x \in parse_pdu_from_ril(pdu)} = deliver_from_bytes(t)
  BY <1>8
<1> QED
  BY <1>6, <1>7, <1>8, <1>9 DEF ShownOf

\* What is not a number is not coded as one.
LEMMA NamesRaise ==
  ASSUME NEW n, Undialable(n), NEW text \in Seq(Nat)
  PROVE  deliver_incoming_sms(n, text) = {}
<1> DEFINE A == NumberOctets(n, 1)
<1> DEFINE H == <<0>>
<1> DEFINE V == <<0, 0, 0, 0, 0, 0, 0>>
<1> DEFINE e == Encoded(GSM_7BIT, text)
<1> DEFINE u == Extent(GSM_7BIT, text)
<1> DEFINE x == Tpdu(H, A, 0, GSM_7BIT, V, u, e)
<1> DEFINE m == deliver_create(International(n), text, GSM_7BIT)
<1>1. GSM_7BIT \in Codings
  BY DEF Codings
<1>2. deliver_to_bytes(m) = Octets(x)
  <2>1. Delivery(m, International(n), GSM_7BIT, text)
    BY IncomingIsDelivery
  <2>2. EncodedData(m) = e /\ UserDataLength(m) = u
    BY <1>1, <2>1, Written DEF Delivery
  <2>3. address_to_bytes(International(n)) = A
    BY DEF address_to_bytes, International, NumberOctets, Alphanumeric
  <2> HIDE DEF m, A, e, u
  <2> QED
    BY <2>1, <2>2, <2>3, NoFlags DEF deliver_to_bytes, Delivery, Tpdu
<1>3. n \in Seq(Nat)
  BY DEF Undialable
<1>4. A \in Seq(Nat) /\ A[3] = encode_bcd(n)[1] /\ Len(A) \in Nat /\ Len(A) >= 3
  <2>1. Len(n) \in Nat \ {0}
    BY <1>3 DEF Undialable
  <2>2. \A k \in Nat \ {0} : (k + 1) \div 2 \in Nat /\ 1 \in 1 .. (k + 1) \div 2
    OBVIOUS
  <2>3. (Len(n) + 1) \div 2 \in Nat /\ 1 \in 1 .. (Len(n) + 1) \div 2
    BY <2>1, <2>2
  <2>4. 1 \in 0 .. 7
    OBVIOUS
  <2>5. /\ A \in Seq(Nat) /\ Len(A) = 2 + (Len(n) + 1) \div 2
        /\ \A k \in 1 .. (Len(n) + 1) \div 2 : A[2 + k] = encode_bcd(n)[k]
    BY <1>3, <2>4, NumberTyped
  <2> HIDE DEF A
  <2>6. PICK k \in 1 .. (Len(n) + 1) \div 2 : k = 1
    BY <2>3
  <2>7. A[2 + k] = encode_bcd(n)[k]
    BY <2>5
  <2>8. 2 + k = 3
    BY <2>6
  <2>9. A[3] = encode_bcd(n)[1]
    BY <2>6, <2>7, <2>8
  <2>10. \A j \in Nat : 1 \in 1 .. j => j >= 1 /\ 2 + j \in Nat /\ 2 + j >= 3
    OBVIOUS
  <2>11. 2 + (Len(n) + 1) \div 2 \in Nat /\ 2 + (Len(n) + 1) \div 2 >= 3
    BY <2>3, <2>10
  <2> QED
    BY <2>5, <2>9, <2>11
<1>5. encode_bcd(n)[1] >= 256
  <2>1. Len(n) \in Nat \ {0} /\ n[1] \in Nat /\ n[1] >= 16
    BY <1>3 DEF Undialable
  <2>2. \A k \in Nat \ {0} : 1 \in 1 .. (k + 1) \div 2
    OBVIOUS
  <2>3. 1 \in 1 .. (Len(n) + 1) \div 2
    BY <2>1, <2>2
  <2>4. encode_bcd(n)[1] =
          n[2 * 1 - 1] + 16 * (IF 2 * 1 <= Len(n) THEN n[2 * 1] ELSE 15)
    BY <1>3, <2>3, BcdTyped
  <2>5. 2 * 1 - 1 = 1 /\ 2 * 1 = 2
    OBVIOUS
  <2>6. encode_bcd(n)[1] = n[1] + 16 * (IF 2 <= Len(n) THEN n[2] ELSE 15)
    BY <2>4, <2>5
  <2>7. CASE 2 <= Len(n)
    <3>1. n[2] \in Nat /\ n[2] >= 16
      BY <1>3, <2>1, <2>7 DEF Undialable
    <3> QED
      BY <2>1, <2>6, <2>7, <3>1
  <2>8. CASE ~ (2 <= Len(n))
    BY <2>1, <2>6, <2>8
  <2> QED
    BY <2>7, <2>8
<1>a. A \in Seq(Nat)
  BY <1>4
<1>b. e \in Seq(Nat)
  BY <1>1, EncodedTyped
<1>c. u \in Nat
  BY <1>1, EncodedTyped
<1>d. V \in Seq(Nat)
  OBVIOUS
<1>e. H \in Seq(Nat)
  OBVIOUS
<1>f. GSM_7BIT \in Nat
  BY DEF GSM_7BIT
<1>g. 0 \in Nat
  OBVIOUS
<1>6. Len(H) = 1
  OBVIOUS
<1> HIDE DEF A, H, V, e, u
<1>7. Placed(x, H, A, 0, GSM_7BIT, V, u, e)
  BY <1>a, <1>b, <1>c, <1>d, <1>e, <1>f, <1>g, Layout
<1> HIDE DEF x
<1>8. PICK Y \in Seq(Nat) : x = H \o A \o Y
  BY <1>7 DEF Placed
<1>9. x \in Seq(Nat)
  BY <1>7 DEF Placed
<1>10. /\ Len(x) = Len(H) + Len(A) + Len(Y)
       /\ \A i \in 0 .. Len(A) - 1 : At(x, Len(H) + i) = A[i + 1]
  BY <1>a, <1>e, <1>8, PartAt
<1>11. At(x, 3) = A[3]
  <2>1. 2 \in 0 .. Len(A) - 1 /\ 2 + 1 = 3 /\ 1 + 2 = 3
    BY <1>4
  <2>2. At(x, Len(H) + 2) = A[2 + 1]
    BY <1>10, <2>1
  <2> QED
    BY <1>6, <2>1, <2>2
<1>12. 3 < Len(x) /\ 4 \in DOMAIN x
  <2>1. Len(Y) \in Nat
    OBVIOUS
  <2>2. Len(x) \in Nat /\ Len(x) >= 4
    BY <1>4, <1>6, <1>10, <2>1
  <2> QED
    BY <1>9, <2>2
<1>13. x[4] \notin Octet
  <2>1. At(x, 3) = x[3 + 1] /\ 3 + 1 = 4
    BY <1>12 DEF At
  <2>2. x[4] >= 256
    BY <1>4, <1>5, <1>11, <2>1
  <2>3. \A k \in Octet : ~ (k >= 256)
    BY DEF Octet
  <2> QED
    BY <2>2, <2>3
<1>14. Octets(x) = {}
  BY <1>12, <1>13 DEF Octets
<1> QED
  BY <1>2, <1>14 DEF deliver_incoming_sms

\* Joined octets are octets.
LEMMA OctetsJoined ==
  ASSUME NEW a \in Seq(Octet), NEW b \in Seq(Octet)
  PROVE  a \o b \in Seq(Octet)
OBVIOUS

\* A number and a text of at most 255 characters fit their octets.
LEMMA IncomingFits ==
  ASSUME NEW n \in Numbers, NEW text \in Seq(Nat), Len(text) < 256
  PROVE  deliver_incoming_sms(n, text) # {}
<1> DEFINE a == International(n)
<1> DEFINE A == NumberOctets(n, 1)
<1> DEFINE H == <<0>>
<1> DEFINE Q == <<0, GSM_7BIT>>
<1> DEFINE V == <<0, 0, 0, 0, 0, 0, 0>>
<1> DEFINE e == Encoded(GSM_7BIT, text)
<1> DEFINE U == <<Extent(GSM_7BIT, text)>>
<1> DEFINE x == H \o A \o Q \o V \o U \o e
<1> DEFINE m == deliver_create(a, text, GSM_7BIT)
<1>1. GSM_7BIT \in Codings /\ GSM_7BIT # UCS2
  BY DEF Codings, GSM_7BIT, UCS2
<1>2. deliver_to_bytes(m) = Octets(x)
  <2>1. Delivery(m, a, GSM_7BIT, text)
    BY IncomingIsDelivery
  <2>2. EncodedData(m) = e /\ UserDataLength(m) = Extent(GSM_7BIT, text)
    BY <1>1, <2>1, Written DEF Delivery
  <2>3. address_to_bytes(a) = A
    BY DEF address_to_bytes, International, NumberOctets, Alphanumeric
  <2> HIDE DEF m, A, a, e
  <2> QED
    BY <2>1, <2>2, <2>3, NoFlags DEF deliver_to_bytes, Delivery
<1>3. n \in Seq(0 .. 9) /\ Len(n) < 256
  BY DEF Numbers
<1>a. n \in Seq(Nat)
  <2>1. 0 .. 9 \subseteq Nat
    OBVIOUS
  <2> QED
    BY <1>3, <2>1, SeqMonotonic
<1>4. A \in Seq(Octet)
  <2> DEFINE b == encode_bcd(n)
  <2> DEFINE l == Len(n)
  <2> DEFINE h == (l + 1) \div 2
  <2>1. l \in Nat
    BY <1>a
  <2>2. h \in Nat /\ \A k \in 1 .. h : 2 * k - 1 \in 1 .. l /\ 2 * k \in Nat \ {0}
    <3>1. \A j \in Nat : (j + 1) \div 2 \in Nat
            /\ \A k \in 1 .. (j + 1) \div 2 : 2 * k - 1 \in 1 .. j /\ 2 * k \in Nat \ {0}
      OBVIOUS
    <3> HIDE DEF l
    <3> QED
      BY <2>1, <3>1
  <2>3. \A i \in 1 .. l : n[i] \in 0 .. 9
    BY <1>3
  <2>4. ASSUME NEW k \in 1 .. h PROVE b[k] \in Octet
    <3>1. b[k] = n[2 * k - 1] + 16 * (IF 2 * k <= l THEN n[2 * k] ELSE 15)
      BY <1>a, BcdTyped
    <3> HIDE DEF h, l, b
    <3>2. n[2 * k - 1] \in 0 .. 9
      BY <2>2, <2>3
    <3>3. (IF 2 * k <= l THEN n[2 * k] ELSE 15) \in 0 .. 15
      <4>1. CASE 2 * k <= l
        <5>1. 2 * k \in 1 .. l
          BY <2>1, <2>2, <4>1
        <5>2. n[2 * k] \in 0 .. 9
          BY <2>3, <5>1
        <5> QED
          BY <4>1, <5>2
      <4>2. CASE ~ (2 * k <= l)
        BY <4>2
      <4> QED
        BY <4>1, <4>2
    <3> DEFINE p0 == n[2 * k - 1]
    <3> DEFINE q0 == IF 2 * k <= l THEN n[2 * k] ELSE 15
    <3>5. p0 \in 0 .. 9 /\ q0 \in 0 .. 15 /\ b[k] = p0 + 16 * q0
      BY <3>1, <3>2, <3>3
    <3> HIDE DEF p0, q0
    <3>4. \A p \in 0 .. 9 : \A q \in 0 .. 15 : p + 16 * q \in 0 .. 255
      OBVIOUS
    <3> QED
      BY <3>4, <3>5 DEF Octet
  <2>5. b \in Seq(Nat) /\ Len(b) = h
    BY <1>a, BcdTyped
  <2> HIDE DEF b, h
  <2>6. b \in Seq(Octet)
    <3>1. b = [k \in 1 .. h |-> b[k]]
      BY <2>5
    <3>2. b \in [1 .. h -> Octet]
      BY <2>4, <3>1
    <3> QED
      BY <2>2, <3>2, Built
  <2> DEFINE f == <<l, 128 + 16 * 1 + 1>>
  <2>7. f \in Seq(Octet)
    <3>1. l \in Octet
      <4>1. l < 256
        BY <1>3
      <4> HIDE DEF l
      <4> QED
        BY <2>1, <4>1 DEF Octet
    <3>2. 128 + 16 * 1 + 1 \in Octet
      BY DEF Octet
    <3> HIDE DEF l
    <3> QED
      BY <3>1, <3>2
  <2>8. A = f \o b
    BY DEF NumberOctets, f, b, l
  <2> HIDE DEF f
  <2> QED
    BY <2>6, <2>7, <2>8, OctetsJoined
<1>5. H \in Seq(Octet)
  BY DEF Octet
<1>6. Q \in Seq(Octet)
  BY DEF Octet, GSM_7BIT
<1>7. V \in Seq(Octet)
  BY DEF Octet
<1>8. U \in Seq(Octet)
  <2>1. Len(text) \in Octet
    <3>1. \A k \in Nat : k < 256 => k \in Octet
      BY DEF Octet
    <3>2. Len(text) \in Nat
      OBVIOUS
    <3> QED
      BY <3>1, <3>2
  <2>2. Extent(GSM_7BIT, text) \in Octet
    BY <1>1, <2>1 DEF Extent
  <2> QED
    BY <2>2
<1>9. e \in Seq(Octet)
  BY <1>1, PackedOctets DEF Encoded
<1> HIDE DEF A, H, Q, V, U, e
<1>10. H \o A \in Seq(Octet)
  BY <1>4, <1>5, OctetsJoined
<1>11. H \o A \o Q \in Seq(Octet)
  BY <1>6, <1>10, OctetsJoined
<1>12. H \o A \o Q \o V \in Seq(Octet)
  BY <1>7, <1>11, OctetsJoined
<1>13. H \o A \o Q \o V \o U \in Seq(Octet)
  BY <1>8, <1>12, OctetsJoined
<1>14. x \in Seq(Octet)
  BY <1>9, <1>13, OctetsJoined
<1> HIDE DEF x
<1>15. \A i \in DOMAIN x : x[i] \in Octet
  BY <1>14
<1>16. Octets(x) = {x}
  BY <1>15 DEF Octets
<1> QED
  BY <1>2, <1>16 DEF deliver_incoming_sms

\* What a number, or what is read of a name, gives to Android.
LEMMA Gives ==
  ASSUME NEW a \in Addresses, NEW n,
         IF a.ton = Alphanumeric THEN Undialable(n) ELSE n = a.number,
         NEW text \in Seq(Nat), NEW read \in Seq(Nat),
         a.ton # Alphanumeric => AsShown(read) = AsShown(text)
  PROVE  /\ \A pdu \in deliver_incoming_sms(n, read) :
              ShownOf(pdu) = {[number |-> a.number, text |-> AsShown(text)]}
         /\ a.ton # Alphanumeric /\ Len(read) < 256 => deliver_incoming_sms(n, read) # {}
<1>1. CASE a.ton = Alphanumeric
  <2>1. deliver_incoming_sms(n, read) = {}
    BY <1>1, NamesRaise
  <2> QED
    BY <1>1, <2>1
<1>2. CASE a.ton # Alphanumeric
  <2>1. n = a.number /\ n \in Numbers /\ AsShown(read) = AsShown(text)
    BY <1>2 DEF Addresses
  <2> QED
    BY <1>2, <2>1, IncomingShown, IncomingFits
<1> QED
  BY <1>1, <1>2

-----------------------------------------------------------------------------
(* Requests. *)

\* PDUs for Android, if the request is handled with the callback set.
Pdus(q) == UNION {deliver_incoming_sms(r.number, r.text) : r \in Read(q)}

\* Those of plain text show what its author wrote, and there is one unless
\* deliver_incoming_sms raises.
RequestOK(q) ==
  q.plain =>
    /\ \A pdu \in Pdus(q) : ShownOf(pdu) = {ToShow(q.sms)}
    /\ /\ q.sms.from.ton # Alphanumeric
       /\ q.sms.text # <<>> /\ Len(q.sms.text) < 256
       => Pdus(q) # {}

\* A MESSAGE with plain text shows its text under its sender.
LEMMA PlainRequestOK ==
  ASSUME NEW a \in Addresses, NEW text \in Seq(Nat), NEW body
  PROVE  RequestOK(Request([from |-> a, text |-> text], TRUE, body))
<1> DEFINE sms == [from |-> a, text |-> text]
<1> DEFINE q == Request(sms, TRUE, body)
<1>1. q.plain = TRUE /\ q.sms = sms
  BY DEF Request
<1>2. sms.from = a /\ sms.text = text
  OBVIOUS
<1> HIDE DEF q, sms
<1>3. Read(q) = {r \in {[number |-> a.number, text |-> text]} : r.text # <<>>}
  BY <1>1, <1>2 DEF Read
<1>4. IF a.ton = Alphanumeric THEN Undialable(a.number) ELSE a.number = a.number
  <2>1. ASSUME a.ton = Alphanumeric PROVE Undialable(a.number)
    <3>1. a.number \in Names
      BY <2>1 DEF Addresses
    <3>2. /\ a.number \in Seq(Nat) /\ a.number # <<>>
          /\ Len(a.number) \in Nat \ {0} /\ \A i \in 1 .. Len(a.number) : a.number[i] >= 16
      BY <3>1, NameSeptets DEF Names
    <3>3. 1 \in 1 .. Len(a.number) /\ (Len(a.number) >= 2 => 2 \in 1 .. Len(a.number))
      BY <3>2
    <3> QED
      BY <3>2, <3>3 DEF Undialable
  <2> QED
    BY <2>1
<1>5. /\ \A pdu \in deliver_incoming_sms(a.number, text) :
           ShownOf(pdu) = {[number |-> a.number, text |-> AsShown(text)]}
      /\ a.ton # Alphanumeric /\ Len(text) < 256 => deliver_incoming_sms(a.number, text) # {}
  BY <1>4, Gives
<1>6. \A r \in Read(q) : r.number = a.number /\ r.text = text
  BY <1>3
<1>7. text # <<>> => Read(q) # {}
  <2> DEFINE r == [number |-> a.number, text |-> text]
  <2>1. r.text = text
    OBVIOUS
  <2> HIDE DEF r
  <2>2. text # <<>> => r \in Read(q)
    BY <1>3, <2>1 DEF r
  <2> QED
    BY <2>2
<1>8. Pdus(q) = IF Read(q) = {} THEN {} ELSE deliver_incoming_sms(a.number, text)
  BY <1>6 DEF Pdus
<1>9. ToShow(q.sms) = [number |-> a.number, text |-> AsShown(text)]
  BY <1>1, <1>2 DEF ToShow
<1> QED
  BY <1>1, <1>2, <1>5, <1>7, <1>8, <1>9 DEF RequestOK, q, sms

\* sms_pdu.py: RPData.from_bytes and SMSDeliver.from_bytes read, from the octets
\* that RPData.to_bytes makes of an SMSDeliver, its number and text; what they
\* read of a name deliver_incoming_sms cannot take for a number.
THEOREM RpDataRoundTrip ==
  ASSUME NEW a \in Addresses, NEW dcs \in Codings, NEW text \in Seq(Nat),
         NEW body \in DeliverBody(deliver_create(a, text, dcs))
  PROVE  IF a.ton = Alphanumeric
         THEN \A r \in RpText(body) : deliver_incoming_sms(r.number, r.text) = {}
         ELSE RpText(body) = {[number |-> a.number, text |-> AsCoded(dcs, text)]}
<1> DEFINE m == deliver_create(a, text, dcs)
<1>1. Delivery(m, a, dcs, text)
  BY DEF Delivery, deliver_create
<1>2. body \in DeliverBody(m)
  OBVIOUS
<1> HIDE DEF m
<1>3. PICK t \in deliver_to_bytes(m) : body \in rp_to_bytes(wrap(RP_DATA_MT, t, 0))
  BY <1>2 DEF DeliverBody
<1>4. /\ t \in Seq(Octet)
      /\ a.ton # Alphanumeric => deliver_from_bytes(t) # {}
      /\ \A d \in deliver_from_bytes(t) :
           /\ SameAddress(a, d.address) /\ d.text \in Seq(Nat)
           /\ a.ton # Alphanumeric => d.text = AsCoded(dcs, text)
  BY <1>1, DeliverRead
<1>5. t \in Seq(Nat)
  <2>1. Octet \subseteq Nat
    BY DEF Octet
  <2> QED
    BY <1>4, <2>1, SeqMonotonic
<1>6. PICK x : rp_from_bytes(body) = {x} /\ x.type = RP_DATA_MT /\ x.tpdu = t
  <2> DEFINE type == RP_DATA_MT
  <2> DEFINE ref == 0
  <2>1. type \in 0 .. 1
    BY DEF RP_DATA_MT
  <2>2. ref \in Nat
    OBVIOUS
  <2>3. body \in rp_to_bytes(wrap(type, t, ref))
    BY <1>3
  <2> HIDE DEF type, ref
  <2>4. RpHolds(body, type, t)
    BY <1>5, <2>1, <2>2, <2>3, RpRead
  <2> QED
    BY <2>4 DEF type, RpHolds
<1>7. RpText(body) =
        {[number |-> d.address.number, text |-> d.text] : d \in deliver_from_bytes(t)}
  <2>1. {y \in rp_from_bytes(body) : y.type \in {RP_DATA_MO, RP_DATA_MT}} = {x}
    BY <1>6
  <2>2. UNION {deliver_from_bytes(rp.tpdu) :
                 rp \in {y \in rp_from_bytes(body) : y.type \in {RP_DATA_MO, RP_DATA_MT}}}
          = deliver_from_bytes(t)
    BY <1>6, <2>1
  <2> QED
    BY <2>2 DEF RpText
<1>8. CASE a.ton = Alphanumeric
  <2> SUFFICES ASSUME NEW r \in RpText(body)
               PROVE  deliver_incoming_sms(r.number, r.text) = {}
    BY <1>8
  <2>1. PICK d \in deliver_from_bytes(t) : r = [number |-> d.address.number, text |-> d.text]
    BY <1>7
  <2>2. r.number = d.address.number /\ r.text = d.text
    BY <2>1
  <2>3. Undialable(r.number) /\ r.text \in Seq(Nat)
    BY <1>4, <1>8, <2>2 DEF SameAddress
  <2> QED
    BY <2>3, NamesRaise
<1>9. CASE a.ton # Alphanumeric
  <2>1. \A d \in deliver_from_bytes(t) :
          d.address.number = a.number /\ d.text = AsCoded(dcs, text)
    BY <1>4, <1>9 DEF SameAddress
  <2> QED
    BY <1>4, <1>7, <1>9, <2>1
<1> QED
  BY <1>8, <1>9

\* A message that is taken for a post shows what was posted.
LEMMA PostShown ==
  ASSUME NEW from \in Numbers \cup Names, NEW text \in Seq(Nat)
  PROVE  \A pdu \in deliver_incoming_sms(from, text) :
           ShownOf(pdu) = {ToShow([from |-> International(from), text |-> text])}
<1>1. ToShow([from |-> International(from), text |-> text])
        = [number |-> from, text |-> AsShown(text)]
  BY DEF ToShow, International
<1>2. CASE from \in Numbers
  BY <1>1, <1>2, IncomingShown
<1>3. CASE from \in Names
  <2>1. /\ from \in Seq(Nat) /\ from # <<>>
        /\ Len(from) \in Nat \ {0} /\ \A i \in 1 .. Len(from) : from[i] >= 16
    BY <1>3, NameSeptets DEF Names
  <2>2. 1 \in 1 .. Len(from) /\ (Len(from) >= 2 => 2 \in 1 .. Len(from))
    BY <2>1
  <2>3. Undialable(from)
    BY <2>1, <2>2 DEF Undialable
  <2>4. deliver_incoming_sms(from, text) = {}
    BY <2>3, NamesRaise
  <2> QED
    BY <2>4
<1> QED
  BY <1>2, <1>3

-----------------------------------------------------------------------------
(* Messages to the network. *)

Messages == [number : Numbers, dcs : Codings, text : Seq(Nat)]

\* The network reads message m in body.
Carried(body, m) ==
  {[number |-> t.address.number, text |-> t.text] :
     t \in UNION {submit_from_bytes(rp.tpdu) : rp \in rp_from_bytes(body)}}
    = {[number |-> m.number, text |-> AsCoded(m.dcs, m.text)]}

\* _send_sip_message sends the message it was given to the number it was written to.
LEMMA OutgoingCarries ==
  ASSUME NEW m \in Messages, NEW pdu \in PduOf(m), rp_ref \in Nat, NEW o \in Outgoing(pdu)
  PROVE  o.number = m.number /\ Carried(o.body, m)
<1>1. m.number \in Numbers /\ m.dcs \in Codings /\ m.text \in Seq(Nat)
  BY DEF Messages
<1>2. PICK t \in submit_to_bytes(submit_create(m.number, m.text, m.dcs, 0)) :
        pdu = build_pdu_for_ril(t, <<>>)
  BY DEF PduOf
<1>3. /\ t \in Seq(Octet)
      /\ \A d \in submit_from_bytes(t) :
           /\ d.address.number = m.number /\ d.dcs = m.dcs
           /\ d.text = AsCoded(m.dcs, m.text) /\ d.data = Encoded(m.dcs, m.text)
  BY <1>1, SubmitRead
<1>4. parse_pdu_from_ril(pdu) = {t}
  BY <1>2, <1>3, RilRead
<1>5. UNION {submit_from_bytes(y) : y \in parse_pdu_from_ril(pdu)} = submit_from_bytes(t)
  BY <1>4
<1>6. UNION {rp_to_bytes(wrap(RP_DATA_MO, y, rp_ref)) : y \in parse_pdu_from_ril(pdu)}
        = rp_to_bytes(wrap(RP_DATA_MO, t, rp_ref))
  BY <1>4
<1>7. PICK d \in submit_from_bytes(t), body \in rp_to_bytes(wrap(RP_DATA_MO, t, rp_ref)) :
        o = [number |-> d.address.number, body |-> body]
  BY <1>5, <1>6 DEF Outgoing
<1>8. o.number = d.address.number /\ o.body = body
  BY <1>7
<1>9. t \in Seq(Nat)
  <2>1. Octet \subseteq Nat
    BY DEF Octet
  <2> QED
    BY <1>3, <2>1, SeqMonotonic
<1>10. PICK x : rp_from_bytes(body) = {x} /\ x.tpdu = t
  <2> DEFINE type == RP_DATA_MO
  <2>1. type \in 0 .. 1
    BY DEF RP_DATA_MO
  <2>2. body \in rp_to_bytes(wrap(type, t, rp_ref))
    BY <1>7
  <2> HIDE DEF type
  <2>3. RpHolds(body, type, t)
    BY <1>9, <2>1, <2>2, RpRead
  <2> QED
    BY <2>3 DEF RpHolds
<1>11. UNION {submit_from_bytes(rp.tpdu) : rp \in rp_from_bytes(body)} = submit_from_bytes(t)
  BY <1>10
<1>12. \A y \in submit_from_bytes(t) :
         y.address.number = m.number /\ y.text = AsCoded(m.dcs, m.text)
  BY <1>3
<1> QED
  BY <1>7, <1>8, <1>11, <1>12 DEF Carried

\* What is relayed is RP-DATA.
LEMMA RelayedOK ==
  ASSUME NEW q, NEW x \in Relayed(q)
  PROVE  x.kind = "request" /\ RequestOK(x)
<1> DEFINE a == International(OwnNumber)
<1> DEFINE All == UNION {submit_from_bytes(rp.tpdu) : rp \in rp_from_bytes(q.body)}
<1> DEFINE D(t) == DeliverBody([deliver_create(a, t.text, t.dcs) EXCEPT !.data = t.data])
<1> DEFINE B == UNION {D(t) : t \in All}
<1> DEFINE R(m, body) == Request([from |-> a, text |-> m.text], FALSE, body)
<1>1. Relayed(q) = {R(m, body) : m \in task[q.from].sms, body \in B}
  BY DEF Relayed
<1> HIDE DEF B, R
<1>2. PICK m \in task[q.from].sms, body \in B : x = R(m, body)
  BY <1>1
<1>3. x.kind = "request" /\ x.plain = FALSE
  BY <1>2 DEF R, Request
<1> QED
  BY <1>3 DEF RequestOK

-----------------------------------------------------------------------------
(* The inductive invariant. *)

Typed ==
  /\ started \in BOOLEAN /\ mt_callback \in BOOLEAN
  /\ client \in 0 .. scene.starts /\ port \in Other .. scene.starts
  /\ rp_ref \in 0 .. RefModulus - 1
  /\ task \in [Sender -> TaskType]
  /\ waiting \subseteq scene.posts
  /\ scene \in Scenes

\* The network took the message of s for its number.
Taken(s) == \A m \in task[s].sms : <<s, m.number>> \in accepted

\* A MESSAGE carries what its sender was given.
MessageOK(q) ==
  /\ q.from \in Sender /\ task[q.from].at # "idle"
  /\ \A m \in task[q.from].sms : q.number = m.number /\ Carried(q.body, m)

\* A response with 200 follows the acceptance.
ResponseOK(r) ==
  /\ r.to \in Sender /\ task[r.to].at # "idle"
  /\ r.status \in {200, 202} => Taken(r.to)

NetOK ==
  \A q \in net :
    /\ q.kind = "MESSAGE" => MessageOK(q)
    /\ q.kind = "response" => ResponseOK(q)
    /\ q.kind = "request" => RequestOK(q)

TaskOK(s) ==
  /\ task[s].at = "idle" => task[s] = Idle
  /\ task[s].at \in {"answered", "done"} /\ task[s].code = 0 /\ task[s].client # 0
     => Taken(s)

Inv ==
  /\ Typed /\ NetOK /\ (\A s \in Sender : TaskOK(s))
  /\ TextArrives /\ AnsweredIsGiven

\* What the scenes hold.
LEMMA SceneTyped ==
  ASSUME Typed
  PROVE  /\ scene.messages \subseteq Messages /\ OwnNumber \in Numbers /\ scene.starts \in Nat
         /\ \A m \in scene.incoming : /\ m.from \in Addresses /\ m.dcs \in Codings
                                      /\ m.text \in Seq(Nat) /\ m.plain \in BOOLEAN
         /\ \A p \in scene.posts : p.from \in Numbers \cup Names /\ p.text \in Seq(Nat)
         /\ \A s \in Sender : task[s].sms \in SUBSET Messages
<1>1. scene \in SceneType /\ OwnNumber \in Numbers
  BY ScenesAssumption DEF Typed
<1>2. /\ scene.messages \in SUBSET Messages /\ scene.starts \in Nat
      /\ scene.incoming \in SUBSET [from : Addresses, dcs : Codings, text : Seq(Nat),
                                    plain : BOOLEAN]
      /\ scene.posts \in SUBSET [from : Numbers \cup Names, text : Seq(Nat)]
  <2>1. Texts \subseteq Seq(Nat)
    <3> DEFINE S == 0 .. 65535
    <3>1. S \subseteq Nat /\ Texts = Seq(S)
      BY DEF Texts
    <3> HIDE DEF S
    <3>2. ASSUME NEW text \in Seq(S) PROVE text \in Seq(Nat)
      BY <3>1, SeqMonotonic
    <3> QED
      BY <3>1, <3>2
  <2>2. /\ scene.messages \in SUBSET [number : Numbers, dcs : Codings, text : Texts]
        /\ scene.starts \in Nat
        /\ scene.incoming \in SUBSET [from : Addresses, dcs : Codings, text : Texts,
                                      plain : BOOLEAN]
        /\ scene.posts \in SUBSET [from : Numbers \cup Names, text : Texts]
    BY <1>1 DEF SceneType, Codings
  <2> QED
    BY <2>1, <2>2 DEF Messages
<1>3. ASSUME NEW s \in Sender PROVE task[s].sms \in SUBSET Messages
  <2>1. task[s].sms \in {{}} \cup {{m} : m \in scene.messages}
    BY DEF Typed, TaskType
  <2> QED
    BY <1>2, <2>1
<1> QED
  BY <1>1, <1>2, <1>3

\* Requests and indications do not depend on the state.
LEMMA RequestKept == \A q : RequestOK(q) => RequestOK(q)'
  BY DEF RequestOK, Pdus, ShownOf, ToShow

LEMMA HeardKept ==
  ASSUME TextArrives, AnsweredIsGiven, UNCHANGED <<indications, heard>>
  PROVE  TextArrives' /\ AnsweredIsGiven'
<1>1. \A pdu : ShownOf(pdu)' = ShownOf(pdu)
  BY DEF ShownOf
<1>2. \A sms : ToShow(sms)' = ToShow(sms)
  BY DEF ToShow
<1>3. \A h : Given(h) => Given(h)'
  BY <1>1, <1>2 DEF Given
<1> QED
  BY <1>1, <1>2, <1>3 DEF TextArrives, AnsweredIsGiven

\* A step that neither sends, takes, answers nor shows anything.
LEMMA NothingSent ==
  ASSUME Inv, UNCHANGED <<task, net, accepted, indications, heard>>
  PROVE  /\ NetOK' /\ (\A s \in Sender : TaskOK(s))'
         /\ TextArrives' /\ AnsweredIsGiven'
<1>2. TextArrives' /\ AnsweredIsGiven'
  BY HeardKept DEF Inv
<1>3. (\A s \in Sender : TaskOK(s))'
  BY DEF Inv, TaskOK, Taken
<1>4. NetOK'
  BY RequestKept DEF Inv, NetOK, MessageOK, ResponseOK, Taken
<1> QED
  BY <1>2, <1>3, <1>4

\* A step of a call that waits or has an answer.
LEMMA CallGoesOn ==
  ASSUME Inv, NEW s \in Sender, task[s].at # "idle",
         task' \in [Sender -> TaskType], \A r \in Sender \ {s} : task'[r] = task[r],
         task'[s].sms = task[s].sms, task'[s].at # "idle", TaskOK(s)',
         UNCHANGED <<net, accepted, indications, heard>>
  PROVE  /\ NetOK' /\ (\A r \in Sender : TaskOK(r))'
         /\ TextArrives' /\ AnsweredIsGiven'
<1>2. TextArrives' /\ AnsweredIsGiven'
  BY HeardKept DEF Inv
<1>3. ASSUME NEW r \in Sender PROVE TaskOK(r)'
  BY DEF Inv, TaskOK, Taken
<1>4. \A r \in Sender : /\ task'[r].sms = task[r].sms
                        /\ task[r].at # "idle" => task'[r].at # "idle"
  OBVIOUS
<1>5. NetOK'
  <2>1. ASSUME NEW q \in net, q.kind = "MESSAGE" PROVE MessageOK(q)'
    BY <1>4, <2>1 DEF Inv, NetOK, MessageOK
  <2>2. ASSUME NEW q \in net, q.kind = "response" PROVE ResponseOK(q)'
    BY <1>4, <2>2 DEF Inv, NetOK, ResponseOK, Taken
  <2>3. ASSUME NEW q \in net, q.kind = "request" PROVE RequestOK(q)'
    BY <2>3, RequestKept DEF Inv, NetOK
  <2> QED
    BY <2>1, <2>2, <2>3 DEF NetOK
<1> QED
  BY <1>2, <1>3, <1>5

-----------------------------------------------------------------------------
(* Each step keeps the invariant. *)

\* SMSoverIMS.start sends nothing, even if the port is taken.
LEMMA StartStep ==
  ASSUME Inv, start PROVE Inv'
<1>1. client' \in 0 .. scene.starts
  BY SceneTyped DEF Inv, Typed, start
<1>2. port' \in Other .. scene.starts
  BY <1>1, SceneTyped DEF Inv, Typed, start, Other
<1>3. Typed'
  BY <1>1, <1>2 DEF Inv, Typed, start, TaskType
<1> QED
  BY <1>3, NothingSent DEF Inv, start

\* SMSoverIMS.stop leaves the calls that wait alone.
LEMMA StopStep ==
  ASSUME Inv, stop PROVE Inv'
<1>1. port' \in Other .. scene.starts
  BY SceneTyped DEF Inv, Typed, stop, Other
<1>2. Typed'
  BY <1>1 DEF Inv, Typed, stop, TaskType
<1> QED
  BY <1>2, NothingSent DEF Inv, stop

\* Another client of port 5060 comes or goes.
LEMMA OtherClientStep ==
  ASSUME Inv, other_client PROVE Inv'
<1>1. port' \in Other .. scene.starts
  BY SceneTyped DEF Inv, Typed, other_client, Other
<1>2. Typed'
  BY <1>1 DEF Inv, Typed, other_client, TaskType
<1> QED
  BY <1>2, NothingSent DEF Inv, other_client

\* set_mt_callback only changes what comes later.
LEMMA CallbackStep ==
  ASSUME Inv, set_mt_callback PROVE Inv'
<1>1. Typed'
  BY DEF Inv, Typed, set_mt_callback, TaskType
<1> QED
  BY <1>1, NothingSent DEF Inv, set_mt_callback

\* A part of a long message does not touch the service.
LEMMA PartStep ==
  ASSUME Inv, NEW i, part_received(i) PROVE Inv'
<1>1. Typed'
  BY DEF Inv, Typed, part_received, serviceVars, TaskType
<1> QED
  BY <1>1, NothingSent DEF Inv, part_received, serviceVars

\* A record of a call with another state and code.
LEMMA Recoded ==
  ASSUME NEW x, x = [at |-> x.at, sms |-> x.sms, client |-> x.client, code |-> x.code],
         NEW a, NEW c
  PROVE  [[x EXCEPT !.at = a] EXCEPT !.code = c]
           = [at |-> a, sms |-> x.sms, client |-> x.client, code |-> c]
<1> DEFINE y == [at |-> a, sms |-> x.sms, client |-> x.client, code |-> x.code]
<1>1. [x EXCEPT !.at = a] = y
  OBVIOUS
<1>2. [y EXCEPT !.code = c] = [at |-> a, sms |-> x.sms, client |-> x.client, code |-> c]
  OBVIOUS
<1> QED
  BY <1>1, <1>2

\* A call gets a state and a code.
LEMMA Ends ==
  ASSUME task \in [Sender -> TaskType], NEW s \in Sender, NEW c \in -1 .. 1,
         NEW a \in {"answered", "done"},
         task' = [task EXCEPT ![s].at = a, ![s].code = c]
  PROVE  /\ task' \in [Sender -> TaskType] /\ \A x \in Sender \ {s} : task'[x] = task[x]
         /\ task'[s].sms = task[s].sms /\ task'[s].at = a
         /\ task'[s].code = c /\ task'[s].client = task[s].client
<1> DEFINE t == [at |-> a, sms |-> task[s].sms, client |-> task[s].client, code |-> c]
<1>1. task[s] \in TaskType
  OBVIOUS
<1>2. t \in TaskType
  BY <1>1 DEF TaskType
<1>3. [[task[s] EXCEPT !.at = a] EXCEPT !.code = c] = t
  <2> DEFINE A == {"idle", "waiting", "answered", "done"}
  <2> DEFINE B == {{}} \cup {{m} : m \in scene.messages}
  <2> DEFINE C == 0 .. scene.starts
  <2> DEFINE D == -1 .. 1
  <2>1. task[s] \in [at : A, sms : B, client : C, code : D]
    BY <1>1 DEF TaskType
  <2> HIDE DEF A, B, C, D
  <2> DEFINE x == task[s]
  <2>2. x = [at |-> x.at, sms |-> x.sms, client |-> x.client, code |-> x.code]
    BY <2>1
  <2> HIDE DEF x
  <2>3. [[x EXCEPT !.at = a] EXCEPT !.code = c]
          = [at |-> a, sms |-> x.sms, client |-> x.client, code |-> c]
    BY <2>2, Recoded
  <2> QED
    BY <2>3 DEF x
<1>4. t.sms = task[s].sms /\ t.at = a /\ t.code = c /\ t.client = task[s].client
  OBVIOUS
<1> HIDE DEF t
<1>5. task' = [task EXCEPT ![s] = t]
  BY <1>3
<1> QED
  BY <1>2, <1>4, <1>5

\* A response of 200 or 202 reaches the call whose message was taken.
LEMMA ResponseStep ==
  ASSUME Inv, NEW r, response(r) PROVE Inv'
<1>1. PICK s \in Sender :
        /\ task[s].at = "waiting" /\ r.to = s
        /\ task' = [task EXCEPT ![s].at = "answered",
                       ![s].code = IF r.status \in {200, 202} THEN 0 ELSE 1]
  BY DEF response, Matched
<1>2. r \in net /\ r.kind = "response"
  BY DEF response
<1>3. UNCHANGED <<serviceVars, net, accepted, indications, heard, waiting, parts, scene>>
  BY DEF response
<1>4. task \in [Sender -> TaskType]
  BY DEF Inv, Typed
<1>5. /\ task' \in [Sender -> TaskType] /\ \A x \in Sender \ {s} : task'[x] = task[x]
      /\ task'[s].sms = task[s].sms /\ task'[s].at = "answered"
      /\ task'[s].code = 0 => r.status \in {200, 202}
  <2> DEFINE c == IF r.status \in {200, 202} THEN 0 ELSE 1
  <2>1. c \in -1 .. 1 /\ (c = 0 => r.status \in {200, 202})
    OBVIOUS
  <2>2. task' = [task EXCEPT ![s].at = "answered", ![s].code = c]
    BY <1>1
  <2> HIDE DEF c
  <2>3. c \in -1 .. 1 /\ "answered" \in {"answered", "done"}
    BY <2>1
  <2>4. /\ task' \in [Sender -> TaskType] /\ \A x \in Sender \ {s} : task'[x] = task[x]
        /\ task'[s].sms = task[s].sms /\ task'[s].at = "answered" /\ task'[s].code = c
    BY <1>4, <2>2, <2>3, Ends
  <2> QED
    BY <2>1, <2>4
<1>6. TaskOK(s)'
  <2>1. r.status \in {200, 202} => Taken(s)
    BY <1>1, <1>2 DEF Inv, NetOK, ResponseOK
  <2>2. Taken(s) => Taken(s)'
    BY <1>3, <1>5 DEF Taken
  <2> QED
    BY <1>5, <2>1, <2>2 DEF TaskOK
<1>7. Typed'
  BY <1>3, <1>5 DEF Inv, Typed, serviceVars, TaskType
<1> QED
  BY <1>1, <1>3, <1>5, <1>6, <1>7, CallGoesOn DEF Inv

\* send_sms goes on with the code of its response.
LEMMA ResumeStep ==
  ASSUME Inv, NEW s \in Sender, resume(s) PROVE Inv'
<1>1. task[s].at = "answered" /\ task' = [task EXCEPT ![s].at = "done",
                                                   ![s].code = task[s].code]
  BY DEF resume, End
<1>2. UNCHANGED <<serviceVars, net, accepted, indications, heard, waiting, parts, scene>>
  BY DEF resume
<1>3. task \in [Sender -> TaskType]
  BY DEF Inv, Typed
<1>4. /\ task' \in [Sender -> TaskType] /\ \A x \in Sender \ {s} : task'[x] = task[x]
      /\ task'[s].sms = task[s].sms /\ task'[s].at = "done"
      /\ task'[s].code = task[s].code /\ task'[s].client = task[s].client
  <2>1. task[s].code \in -1 .. 1
    BY <1>3 DEF TaskType
  <2> QED
    BY <1>1, <1>3, <2>1, Ends
<1>5. TaskOK(s)'
  BY <1>1, <1>2, <1>4 DEF Inv, TaskOK, Taken
<1>6. Typed'
  BY <1>2, <1>4 DEF Inv, Typed, serviceVars, TaskType
<1> QED
  BY <1>1, <1>2, <1>4, <1>5, <1>6, CallGoesOn DEF Inv

\* send_sms reports failure after 32 seconds.
LEMMA TimeoutStep ==
  ASSUME Inv, NEW s \in Sender, timeout(s) PROVE Inv'
<1>1. task[s].at = "waiting" /\ task' = [task EXCEPT ![s].at = "done", ![s].code = 1]
  BY DEF timeout, End
<1>2. UNCHANGED <<serviceVars, net, accepted, indications, heard, waiting, parts, scene>>
  BY DEF timeout
<1>3. task \in [Sender -> TaskType]
  BY DEF Inv, Typed
<1>4. /\ task' \in [Sender -> TaskType] /\ \A x \in Sender \ {s} : task'[x] = task[x]
      /\ task'[s].sms = task[s].sms /\ task'[s].at = "done" /\ task'[s].code = 1
  <2>1. 1 \in -1 .. 1
    OBVIOUS
  <2> QED
    BY <1>1, <1>3, <2>1, Ends
<1>5. TaskOK(s)'
  BY <1>4 DEF TaskOK
<1>6. Typed'
  BY <1>2, <1>4 DEF Inv, Typed, serviceVars, TaskType
<1> QED
  BY <1>1, <1>2, <1>4, <1>5, <1>6, CallGoesOn DEF Inv
-----------------------------------------------------------------------------
(* A new call. *)

\* A call that begins; nothing of it is on its way before.
LEMMA CallBegins ==
  ASSUME Inv, NEW s \in Sender, task[s].at = "idle",
         \A r \in Sender \ {s} : task'[r] = task[r],
         task'[s].at # "idle", TaskOK(s)', net \subseteq net',
         \A q \in net' \ net : q.kind = "MESSAGE" /\ MessageOK(q)',
         UNCHANGED <<accepted, indications, heard>>
  PROVE  /\ NetOK' /\ (\A r \in Sender : TaskOK(r))'
         /\ TextArrives' /\ AnsweredIsGiven'
<1>2. TextArrives' /\ AnsweredIsGiven'
  BY HeardKept DEF Inv
<1>3. ASSUME NEW r \in Sender PROVE TaskOK(r)'
  BY DEF Inv, TaskOK, Taken
<1>4. NetOK'
  <2>1. ASSUME NEW q \in net, q.kind = "MESSAGE" PROVE MessageOK(q)'
    <3>1. MessageOK(q)
      BY <2>1 DEF Inv, NetOK
    <3>2. q.from \in Sender \ {s}
      BY <3>1 DEF MessageOK
    <3> QED
      BY <3>1, <3>2 DEF MessageOK
  <2>2. ASSUME NEW q \in net, q.kind = "response" PROVE ResponseOK(q)'
    <3>1. ResponseOK(q)
      BY <2>2 DEF Inv, NetOK
    <3>2. q.to \in Sender \ {s}
      BY <3>1 DEF ResponseOK
    <3> QED
      BY <3>1, <3>2 DEF ResponseOK, Taken
  <2>3. ASSUME NEW q \in net, q.kind = "request" PROVE RequestOK(q)'
    BY <2>3, RequestKept DEF Inv, NetOK
  <2> QED
    BY <2>1, <2>2, <2>3 DEF NetOK
<1> QED
  BY <1>2, <1>3, <1>4

\* RadioHAL.send_sms ends at once, or sends the message and waits.
LEMMA SendStep ==
  ASSUME Inv, NEW s \in Sender, NEW pdu,
         NEW sms \in {{}} \cup {{m} : m \in scene.messages},
         \A m \in sms : pdu \in PduOf(m), send_sms(s, pdu, sms)
  PROVE  Inv'
<1>1. task \in [Sender -> TaskType] /\ task[s].at = "idle" /\ task[s] = Idle
  BY DEF Inv, Typed, TaskOK, send_sms
<1>2. UNCHANGED <<started, client, port, mt_callback, accepted, indications, heard,
                  waiting, parts, scene>>
  BY DEF send_sms
<1>3. rp_ref' \in 0 .. RefModulus - 1
  <2>1. rp_ref' \in {rp_ref, (rp_ref + 1) % RefModulus}
    BY DEF send_sms, _next_rp_ref
  <2> QED
    BY <2>1, RefAssumption DEF Inv, Typed
<1>4. ASSUME task' \in [Sender -> TaskType] PROVE Typed'
  BY <1>2, <1>3, <1>4 DEF Inv, Typed, TaskType
<1>5. ASSUME NEW c \in 0 .. 1, End(s, c), UNCHANGED net PROVE Inv'
  <2>1. /\ c \in -1 .. 1 /\ "done" \in {"answered", "done"}
    OBVIOUS
  <2>2. task' = [task EXCEPT ![s].at = "done", ![s].code = c]
    BY <1>5 DEF End
  <2>3. /\ task' \in [Sender -> TaskType] /\ \A x \in Sender \ {s} : task'[x] = task[x]
        /\ task'[s].at = "done" /\ task'[s].client = task[s].client
    BY <1>1, <2>1, <2>2, Ends
  <2>4. TaskOK(s)'
    BY <1>1, <2>3 DEF TaskOK, Idle
  <2> QED
    BY <1>1, <1>2, <1>4, <1>5, <2>3, <2>4, CallBegins DEF Inv
<1>6. ASSUME started, Outgoing(pdu) # {} PROVE Inv'
  <2> DEFINE t == [at |-> "waiting", sms |-> sms, client |-> client, code |-> -1]
  <2>1. t \in TaskType
    <3>1. client \in 0 .. scene.starts /\ -1 \in -1 .. 1
      BY DEF Inv, Typed
    <3> QED
      BY <3>1 DEF TaskType
  <2>2. t.at = "waiting" /\ t.sms = sms
    OBVIOUS
  <2>3. task' = [task EXCEPT ![s] = t]
    <3>1. task' = [task EXCEPT ![s] =
                     [task[s] EXCEPT !.at = "waiting", !.sms = sms, !.client = client]]
      BY <1>6 DEF send_sms
    <3>2. [Idle EXCEPT !.at = "waiting", !.sms = sms, !.client = client] = t
      <4> DEFINE y == [at |-> "waiting", sms |-> {}, client |-> 0, code |-> -1]
      <4> DEFINE z == [at |-> "waiting", sms |-> sms, client |-> 0, code |-> -1]
      <4>1. [Idle EXCEPT !.at = "waiting"] = y
        BY DEF Idle
      <4>2. [y EXCEPT !.sms = sms] = z
        OBVIOUS
      <4>3. [z EXCEPT !.client = client] = t
        OBVIOUS
      <4> HIDE DEF y, z, t
      <4> QED
        BY <4>1, <4>2, <4>3
    <3> QED
      BY <1>1, <3>1, <3>2
  <2> HIDE DEF t
  <2>4. /\ task' \in [Sender -> TaskType] /\ \A x \in Sender \ {s} : task'[x] = task[x]
        /\ task'[s] = t
    BY <1>1, <2>1, <2>3
  <2>5. net' = net \cup {[kind |-> "MESSAGE", from |-> s, number |-> o.number,
                          body |-> o.body] : o \in Outgoing(pdu)}
    BY <1>6 DEF send_sms
  <2>6. ASSUME NEW q \in net' \ net PROVE q.kind = "MESSAGE" /\ MessageOK(q)'
    <3>1. PICK o \in Outgoing(pdu) :
            q = [kind |-> "MESSAGE", from |-> s, number |-> o.number, body |-> o.body]
      BY <2>5
    <3>2. q.kind = "MESSAGE" /\ q.from = s /\ q.number = o.number /\ q.body = o.body
      BY <3>1
    <3>3. ASSUME NEW m \in sms PROVE q.number = m.number /\ Carried(q.body, m)
      <4>1. m \in Messages
        BY SceneTyped DEF Inv
      <4>2. rp_ref \in Nat
        BY RefAssumption DEF Inv, Typed
      <4>3. pdu \in PduOf(m)
        OBVIOUS
      <4> QED
        BY <3>2, <4>1, <4>2, <4>3, OutgoingCarries
    <3>4. \A m \in task'[s].sms : q.number = m.number /\ Carried(q.body, m)
      BY <2>2, <2>4, <3>3
    <3> QED
      BY <2>2, <2>4, <3>2, <3>4 DEF MessageOK
  <2>7. TaskOK(s)'
    BY <2>2, <2>4 DEF TaskOK
  <2> QED
    BY <1>1, <1>2, <1>4, <2>2, <2>4, <2>5, <2>6, <2>7, CallBegins DEF Inv
<1> QED
  BY <1>5, <1>6 DEF send_sms

\* Both callers of send_sms, the RIL and POST /sms/send.
LEMMA AndroidStep ==
  ASSUME Inv, NEW s \in Sender, android_sends(s) \/ send_sms_api(s) PROVE Inv'
<1>1. CASE \E m \in scene.messages : \E pdu \in PduOf(m) : send_sms(s, pdu, {m})
  <2>1. PICK m \in scene.messages : \E pdu \in PduOf(m) : send_sms(s, pdu, {m})
    BY <1>1
  <2>2. PICK pdu \in PduOf(m) : send_sms(s, pdu, {m})
    BY <2>1
  <2> DEFINE sms == {m}
  <2>3. /\ sms \in {{}} \cup {{x} : x \in scene.messages}
        /\ \A x \in sms : pdu \in PduOf(x)
    OBVIOUS
  <2>4. send_sms(s, pdu, sms)
    BY <2>2
  <2> HIDE DEF sms
  <2> QED
    BY <2>3, <2>4, SendStep
<1>2. CASE \E pdu \in scene.raw : send_sms(s, pdu, {})
  <2>1. PICK pdu \in scene.raw : send_sms(s, pdu, {})
    BY <1>2
  <2> DEFINE sms == {}
  <2>2. /\ sms \in {{}} \cup {{x} : x \in scene.messages}
        /\ \A x \in sms : pdu \in PduOf(x)
    OBVIOUS
  <2>3. send_sms(s, pdu, sms)
    BY <2>1
  <2> HIDE DEF sms
  <2> QED
    BY <2>2, <2>3, SendStep
<1> QED
  BY <1>1, <1>2 DEF android_sends, send_sms_api
-----------------------------------------------------------------------------
(* The network's steps, and what comes to the phone. *)

\* A step of the network.
LEMMA NetworkSends ==
  ASSUME Inv, UNCHANGED <<serviceVars, task, indications, heard, waiting, parts, scene>>,
         accepted \subseteq accepted',
         \A q \in net' \ net : /\ q.kind = "MESSAGE" => MessageOK(q)'
                               /\ q.kind = "response" => ResponseOK(q)'
                               /\ q.kind = "request" => RequestOK(q)
  PROVE  Inv'
<1>1. Typed'
  BY DEF Inv, Typed, serviceVars, TaskType
<1>3. TextArrives' /\ AnsweredIsGiven'
  BY HeardKept DEF Inv
<1>4. ASSUME NEW s \in Sender PROVE TaskOK(s)'
  BY DEF Inv, TaskOK, Taken
<1>5. NetOK'
  <2>1. ASSUME NEW q \in net, q.kind = "MESSAGE" PROVE MessageOK(q)'
    BY <2>1 DEF Inv, NetOK, MessageOK
  <2>2. ASSUME NEW q \in net, q.kind = "response" PROVE ResponseOK(q)'
    BY <2>2 DEF Inv, NetOK, ResponseOK, Taken
  <2>3. ASSUME NEW q \in net, q.kind = "request" PROVE RequestOK(q)'
    BY <2>3, RequestKept DEF Inv, NetOK
  <2>4. ASSUME NEW q \in net' \ net, q.kind = "request" PROVE RequestOK(q)'
    BY <2>4, RequestKept
  <2> QED
    BY <2>1, <2>2, <2>3, <2>4 DEF NetOK
<1> QED
  BY <1>1, <1>3, <1>4, <1>5 DEF Inv

\* The network takes a message: what it answers and sends on is in order.
LEMMA AcceptStep ==
  ASSUME Inv, NEW q, network_accepts(q) PROVE Inv'
<1>1. q \in net /\ q.kind = "MESSAGE" /\ MessageOK(q)
  BY DEF Inv, NetOK, network_accepts
<1>2. UNCHANGED <<serviceVars, task, indications, heard, waiting, parts, scene>>
  BY DEF network_accepts
<1>3. accepted' = accepted \cup {<<q.from, q.number>>}
  BY DEF network_accepts
<1>4. PICK status \in {200, 202} :
        net' = net \cup {[kind |-> "response", to |-> q.from, status |-> status]}
                   \cup IF q.number = OwnNumber THEN Relayed(q) ELSE {}
  BY DEF network_accepts
<1> DEFINE r == [kind |-> "response", to |-> q.from, status |-> status]
<1>5. r.kind = "response" /\ r.to = q.from
  OBVIOUS
<1>6. ResponseOK(r)'
  <2>1. Taken(q.from)'
    BY <1>1, <1>2, <1>3 DEF MessageOK, Taken
  <2> QED
    BY <1>1, <1>2, <1>5, <2>1 DEF MessageOK, ResponseOK
<1>7. \A x \in Relayed(q) : x.kind = "request" /\ RequestOK(x)
  BY RelayedOK
<1> HIDE DEF r
<1>8. \A x \in net' \ net : x = r \/ x \in Relayed(q)
  BY <1>4 DEF r
<1>9. \A x \in net' \ net : /\ x.kind = "MESSAGE" => MessageOK(x)'
                            /\ x.kind = "response" => ResponseOK(x)'
                            /\ x.kind = "request" => RequestOK(x)
  BY <1>5, <1>6, <1>7, <1>8
<1> QED
  BY <1>2, <1>3, <1>9, NetworkSends

\* The network rejects a message: no call can take that for a success.
LEMMA RejectStep ==
  ASSUME Inv, NEW q, network_rejects(q) PROVE Inv'
<1>1. q \in net /\ q.kind = "MESSAGE" /\ MessageOK(q)
  BY DEF Inv, NetOK, network_rejects
<1>2. UNCHANGED <<serviceVars, task, accepted, indications, heard, waiting, parts, scene>>
  BY DEF network_rejects
<1> DEFINE r == [kind |-> "response", to |-> q.from, status |-> 403]
<1>3. r.kind = "response" /\ r.to = q.from /\ r.status \notin {200, 202}
  OBVIOUS
<1>4. ResponseOK(r)'
  BY <1>1, <1>2, <1>3 DEF MessageOK, ResponseOK
<1>5. net' = (net \ {q}) \cup {r}
  BY DEF network_rejects
<1> HIDE DEF r
<1>6. \A x \in net' \ net : /\ x.kind = "MESSAGE" => MessageOK(x)'
                            /\ x.kind = "response" => ResponseOK(x)'
                            /\ x.kind = "request" => RequestOK(x)
  BY <1>3, <1>4, <1>5
<1> QED
  BY <1>2, <1>6, NetworkSends

\* A message of another subscriber.
LEMMA OthersStep ==
  ASSUME Inv, NEW m \in scene.incoming, others_send(m) PROVE Inv'
<1>1. UNCHANGED <<serviceVars, task, accepted, indications, heard, waiting, parts, scene>>
  BY DEF others_send
<1>2. /\ m.from \in Addresses /\ m.dcs \in Codings /\ m.text \in Seq(Nat)
      /\ m.plain \in BOOLEAN
  BY SceneTyped DEF Inv
<1> DEFINE d == deliver_create(m.from, m.text, m.dcs)
<1> DEFINE sms == [from |-> m.from, text |-> m.text]
<1>3. ASSUME NEW x \in net' \ net
      PROVE  \E body \in IF m.plain THEN {<<>>} ELSE DeliverBody(d) :
               x = Request(sms, m.plain, body)
  BY DEF others_send
<1>4. ASSUME NEW x \in net' \ net PROVE x.kind = "request" /\ RequestOK(x)
  <2>1. PICK body \in IF m.plain THEN {<<>>} ELSE DeliverBody(d) :
          x = Request(sms, m.plain, body)
    BY <1>3
  <2>2. x.kind = "request"
    BY <2>1 DEF Request
  <2>3. CASE m.plain = TRUE
    BY <1>2, <2>1, <2>2, <2>3, PlainRequestOK
  <2>4. CASE m.plain = FALSE
    <3>1. x.plain = FALSE
      BY <2>1, <2>4 DEF Request
    <3> QED
      BY <2>2, <3>1 DEF RequestOK
  <2> QED
    BY <1>2, <2>3, <2>4
<1> QED
  BY <1>1, <1>4, NetworkSends

\* A message is answered, and given to Android.
LEMMA MessageGiven ==
  ASSUME TextArrives, AnsweredIsGiven, NEW given, NEW h,
         indications' = indications \cup For(given, h), heard' = heard \cup {h},
         h.by # "rp" => \A pdu \in given : ShownOf(pdu) = {ToShow(h.sms)},
         /\ h.by # "rp" /\ h.sms.text # <<>>
         /\ h.by = "post" => h.sms.from.number # <<>>
         /\ h.by = "plain" => h.sms.from.ton # Alphanumeric /\ Len(h.sms.text) < 256
         => given # {}
  PROVE  TextArrives' /\ AnsweredIsGiven'
<1>1. \A pdu, sms : /\ ShownOf(pdu)' = ShownOf(pdu)
                    /\ ToShow(sms)' = ToShow(sms)
  BY DEF ShownOf, ToShow
<1>2. \A i \in For(given, h) : i.pdu \in given /\ i.of = h
  BY DEF For
<1>3. TextArrives'
  <2> SUFFICES ASSUME NEW i \in indications', i.of.by # "rp"
               PROVE  ShownOf(i.pdu) = {ToShow(i.of.sms)}
    BY <1>1 DEF TextArrives
  <2>1. CASE i \in indications
    BY <2>1 DEF TextArrives
  <2>2. CASE i \in For(given, h)
    BY <1>2, <2>2
  <2> QED
    BY <2>1, <2>2
<1>4. \A g : Given(g) => Given(g)'
  BY <1>1 DEF Given
<1>5. ASSUME h.by # "rp", given # {} PROVE Given(h)'
  <2>1. PICK pdu \in given : TRUE
    BY <1>5
  <2> DEFINE i == [pdu |-> pdu, of |-> h]
  <2>2. i \in indications' /\ i.of = h /\ i.pdu = pdu
    BY DEF For
  <2> HIDE DEF i
  <2>3. ShownOf(i.pdu)' = {ToShow(h.sms)'}
    BY <1>1, <1>5, <2>2
  <2> QED
    BY <2>2, <2>3 DEF Given
<1>6. AnsweredIsGiven'
  <2> SUFFICES ASSUME NEW g \in heard', g.by # "rp" /\ g.sms.text # <<>>,
                      g.by = "post" => g.sms.from.number # <<>>,
                      g.by = "plain" => g.sms.from.ton # Alphanumeric /\ Len(g.sms.text) < 256
               PROVE  Given(g)'
    BY DEF AnsweredIsGiven
  <2>1. CASE g \in heard
    BY <1>4, <2>1 DEF AnsweredIsGiven
  <2>2. CASE g = h
    BY <1>5, <2>2
  <2> QED
    BY <2>1, <2>2
<1> QED
  BY <1>3, <1>6

\* _handle_sip_message gives Android what was written in plain text, or nothing.
LEMMA HandleStep ==
  ASSUME Inv, NEW q, _handle_sip_message(q) PROVE Inv'
<1>1. UNCHANGED <<serviceVars, task, net, accepted, waiting, parts, scene>>
  BY DEF _handle_sip_message
<1>2. RequestOK(q)
  BY DEF Inv, NetOK, _handle_sip_message
<1>3. NetOK' /\ (\A s \in Sender : TaskOK(s))'
  <2>1. (\A s \in Sender : TaskOK(s))'
    BY <1>1 DEF Inv, TaskOK, Taken
  <2>2. NetOK'
    BY <1>1, RequestKept DEF Inv, NetOK, MessageOK, ResponseOK, Taken
  <2> QED
    BY <2>1, <2>2
<1>4. Typed'
  BY <1>1 DEF Inv, Typed, serviceVars, TaskType
<1>5. CASE mt_callback
  <2> DEFINE h == Message(q)
  <2> DEFINE given == Pdus(q)
  <2>1. heard' = heard \cup {h} /\ indications' = indications \cup For(given, h)
    BY <1>5 DEF _handle_sip_message, Pdus
  <2>2. h.sms = q.sms /\ h.by = IF q.plain THEN "plain" ELSE "rp"
    BY DEF Message
  <2> HIDE DEF h, given
  <2>3. h.by # "post" /\ (h.by # "rp" => q.plain)
    BY <2>2
  <2>4. h.by # "rp" => \A pdu \in given : ShownOf(pdu) = {ToShow(h.sms)}
    BY <1>2, <2>2, <2>3 DEF RequestOK, given
  <2>5. /\ h.by # "rp" /\ h.sms.text # <<>>
        /\ h.by = "plain" => h.sms.from.ton # Alphanumeric /\ Len(h.sms.text) < 256
        => given # {}
    BY <1>2, <2>2, <2>3 DEF RequestOK, given
  <2>6. TextArrives' /\ AnsweredIsGiven'
    BY <2>1, <2>4, <2>5, MessageGiven DEF Inv
  <2> QED
    BY <1>3, <1>4, <2>6 DEF Inv
<1>6. CASE ~mt_callback
  <2>1. UNCHANGED <<heard, indications>>
    BY <1>6 DEF _handle_sip_message
  <2> QED
    BY <1>1, <1>4, <2>1, NothingSent DEF Inv
<1> QED
  BY <1>5, <1>6

\* _webhook_handler answers 200 only if Android was given the message.
LEMMA WebhookStep ==
  ASSUME Inv, NEW p \in scene.posts, _webhook_handler(p) PROVE Inv'
<1>1. UNCHANGED <<serviceVars, task, net, accepted, parts, scene>>
  BY DEF _webhook_handler
<1>2. p.from \in Numbers \cup Names /\ p.text \in Seq(Nat)
  BY SceneTyped DEF Inv
<1>3. NetOK' /\ (\A s \in Sender : TaskOK(s))'
  <2>1. (\A s \in Sender : TaskOK(s))'
    BY <1>1 DEF Inv, TaskOK, Taken
  <2>2. NetOK'
    BY <1>1, RequestKept DEF Inv, NetOK, MessageOK, ResponseOK, Taken
  <2> QED
    BY <2>1, <2>2
<1>4. waiting' \subseteq scene.posts
  BY DEF _webhook_handler, Inv, Typed
<1>5. Typed'
  BY <1>1, <1>4 DEF Inv, Typed, serviceVars, TaskType
<1>6. CASE mt_callback
  <2> DEFINE given == deliver_mt_sms(p)
  <2> DEFINE sms == [from |-> International(p.from), text |-> p.text]
  <2> DEFINE h == Post(p)
  <2>1. /\ heard' = heard \cup {h} /\ indications' = indications \cup For(given, h)
        /\ Forwarded(p) => given # {}
    BY <1>6 DEF _webhook_handler, Answerable
  <2>2. h.by = "post" /\ h.sms = sms /\ sms.from.number = p.from /\ sms.text = p.text
    BY DEF Post, International
  <2>3. \A pdu \in given : ShownOf(pdu) = {ToShow(sms)}
    <3>1. given \subseteq deliver_incoming_sms(p.from, p.text)
      BY DEF deliver_mt_sms
    <3> HIDE DEF given
    <3> QED
      BY <1>2, <3>1, PostShown
  <2> HIDE DEF given, h, sms
  <2>4. h.sms.text # <<>> /\ h.sms.from.number # <<>> => given # {}
    BY <2>1, <2>2 DEF Forwarded
  <2>5. TextArrives' /\ AnsweredIsGiven'
    BY <2>1, <2>2, <2>3, <2>4, MessageGiven DEF Inv
  <2> QED
    BY <1>3, <1>5, <2>5 DEF Inv
<1>7. CASE ~mt_callback
  <2>1. UNCHANGED <<heard, indications>>
    BY <1>7 DEF _webhook_handler, deliver_mt_sms, For
  <2> QED
    BY <1>1, <1>5, <2>1, NothingSent DEF Inv
<1> QED
  BY <1>6, <1>7
-----------------------------------------------------------------------------
(* The theorems. *)

\* At the start nothing was sent, heard or shown.
LEMMA InitInv ==
  ASSUME Init PROVE Inv
<1>1. scene \in SceneType
  BY ScenesAssumption DEF Init
<1>2. scene.starts \in Nat
  BY <1>1 DEF SceneType
<1>3. Idle \in TaskType
  <2>1. 0 \in 0 .. scene.starts /\ -1 \in -1 .. 1
    BY <1>2
  <2> QED
    BY <2>1 DEF Idle, TaskType
<1>4. port \in Other .. scene.starts /\ client \in 0 .. scene.starts
  BY <1>2 DEF Init, Other
<1>5. rp_ref \in 0 .. RefModulus - 1
  BY RefAssumption DEF Init
<1>6. Typed
  BY <1>3, <1>4, <1>5 DEF Init, Typed
<1>7. NetOK
  BY DEF Init, NetOK
<1>8. ASSUME NEW s \in Sender PROVE TaskOK(s)
  <2>1. task[s] = Idle
    BY DEF Init
  <2>2. Idle.at = "idle"
    BY DEF Idle
  <2> QED
    BY <2>1, <2>2 DEF TaskOK
<1>9. TextArrives /\ AnsweredIsGiven
  BY DEF Init, TextArrives, AnsweredIsGiven
<1> QED
  BY <1>6, <1>7, <1>8, <1>9 DEF Inv

\* Each step keeps the invariant.
LEMMA NextInv ==
  ASSUME Inv, [Next]_vars PROVE Inv'
<1>1. CASE start
  BY <1>1, StartStep
<1>2. CASE stop
  BY <1>2, StopStep
<1>3. CASE other_client
  BY <1>3, OtherClientStep
<1>4. CASE set_mt_callback
  BY <1>4, CallbackStep
<1>5. ASSUME NEW s \in Sender,
             android_sends(s) \/ send_sms_api(s) \/ resume(s) \/ timeout(s)
      PROVE  Inv'
  BY <1>5, AndroidStep, ResumeStep, TimeoutStep
<1>6. ASSUME NEW m \in net, response(m) \/ network_accepts(m) \/ network_rejects(m)
                            \/ _handle_sip_message(m)
      PROVE  Inv'
  BY <1>6, ResponseStep, AcceptStep, RejectStep, HandleStep
<1>7. ASSUME NEW m \in scene.incoming, others_send(m) PROVE Inv'
  BY <1>7, OthersStep
<1>8. ASSUME NEW p \in scene.posts, _webhook_handler(p) PROVE Inv'
  BY <1>8, WebhookStep
<1>9. ASSUME NEW i \in DOMAIN LongParts, part_received(i) PROVE Inv'
  BY <1>9, PartStep
<1>10. CASE UNCHANGED vars
  <2>1. Typed'
    BY <1>10 DEF Inv, Typed, vars, serviceVars, TaskType
  <2> QED
    BY <1>10, <2>1, NothingSent DEF Inv, vars
<1> QED
  BY <1>1, <1>2, <1>3, <1>4, <1>5, <1>6, <1>7, <1>8, <1>9, <1>10 DEF Next

\* Every reachable state satisfies the inductive invariant.
THEOREM Invariant == Spec => []Inv
<1>1. Init => Inv
  BY InitInv
<1>2. Inv /\ [Next]_vars => Inv'
  BY NextInv
<1> QED
  BY <1>1, <1>2, PTL DEF Spec

\* sms.py send_sms: a call of a running service that returns success had that
\* very message taken by the network, for the number it was written to, whatever
\* responses of other calls and of earlier clients come in, and when.
THEOREM SuccessMeansAccepted == Spec => []SuccessIsAccepted
<1>1. Inv => SuccessIsAccepted
  BY DEF Inv, TaskOK, Taken, SuccessIsAccepted
<1> QED
  BY <1>1, Invariant, PTL

\* RadioHAL.deliver_incoming_sms: what Android shows of a post or of a MESSAGE with
\* plain text is what was written, under the number it came from.
THEOREM ShownWasWritten == Spec => []TextArrives
<1>1. Inv => TextArrives
  BY DEF Inv
<1> QED
  BY <1>1, Invariant, PTL

\* A message answered with 200 is given to Android as it was written: a post that
\* has a sender and a text, and a MESSAGE with plain text unless its sender is a
\* name or its text longer than 255 characters.
THEOREM AnsweredReachesAndroid == Spec => []AnsweredIsGiven
<1>1. Inv => AnsweredIsGiven
  BY DEF Inv
<1> QED
  BY <1>1, Invariant, PTL

\* sms.py _send_sip_message: every MESSAGE on its way holds, in RP-DATA and a submit
\* TPDU, the number and the text that its call of send_sms was given.
THEOREM CarriesWhatWasWritten == Spec => []CarriedIsWritten
<1>1. Inv => CarriedIsWritten
  BY DEF Inv, NetOK, MessageOK, Carried, CarriedIsWritten
<1> QED
  BY <1>1, Invariant, PTL
=============================================================================
