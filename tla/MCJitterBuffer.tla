--------------------------- MODULE MCJitterBuffer ---------------------------
(* TLC instances of JitterBuffer. *)
EXTENDS JitterBuffer

\* The middle one of the first packets is a telephone event.
OneEvent == {2}
=============================================================================
