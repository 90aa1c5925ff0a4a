---------------------------- MODULE MCSmsOverIms ----------------------------
(* Small instances of SmsOverIms for TLC. *)
EXTENDS SmsOverIms

CONSTANTS s1, s2

MCSender == {s1, s2}
MCOwnNumber == <<1, 5, 5>>

\* Texts around the boundaries of the packing: 7 septets leave a free bit, 8
\* fill their octets.  1234 is not in the GSM alphabet, and 27 is its escape.
Text(n) == [i \in 1 .. n |-> (37 * i + 5) % 128]

MCMessages ==
  {[number |-> MCOwnNumber, dcs |-> GSM_7BIT, text |-> Text(8)],
   [number |-> <<4, 2, 0, 7>>, dcs |-> GSM_7BIT, text |-> <<>>],
   [number |-> MCOwnNumber, dcs |-> UCS2, text |-> <<1234, 65, 27>>]}
MCIncoming ==
  {[from |-> International(<<1, 2, 3, 4, 5, 6, 7, 0>>), dcs |-> GSM_7BIT, text |-> Text(7), plain |-> FALSE],
   [from |-> [number |-> <<65, 66>>, ton |-> Alphanumeric], dcs |-> GSM_7BIT,
    text |-> Text(9), plain |-> FALSE],
   [from |-> International(<<3>>), dcs |-> UCS2, text |-> <<72, 300>>, plain |-> FALSE],
   [from |-> International(<<3>>), dcs |-> GSM_7BIT, text |-> <<72, 300>>, plain |-> TRUE]}
MCPosts ==
  {[from |-> <<2, 2>>, text |-> Text(160)], [from |-> <<2>>, text |-> Text(256)],
   [from |-> <<>>, text |-> Text(3)], [from |-> <<2>>, text |-> <<>>]}
MCLong ==
  {[dcs |-> GSM_7BIT, text |-> Text(307)], [dcs |-> UCS2, text |-> Text(71)],
   [dcs |-> GSM_7BIT, text |-> Text(160)]}

Nothing ==
  [messages |-> {}, raw |-> {}, incoming |-> {}, posts |-> {}, long |-> {}, starts |-> 1]
MCScenes ==
  {[Nothing EXCEPT !.messages = {m \in MCMessages : m.dcs = GSM_7BIT},
                   !.raw = {<<0, 65, 0, 11>>}, !.starts = 2],
   [Nothing EXCEPT !.messages = {m \in MCMessages : m.dcs = UCS2}],
   [Nothing EXCEPT !.incoming = MCIncoming],
   [Nothing EXCEPT !.posts = MCPosts]}
  \cup {[Nothing EXCEPT !.long = {l}, !.starts = 0] : l \in MCLong}
=============================================================================
