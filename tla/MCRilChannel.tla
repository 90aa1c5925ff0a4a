---------------------------- MODULE MCRilChannel ----------------------------
(* TLC instances of RilChannel. *)
EXTENDS RilChannel

CONSTANTS c1

OneClient == {c1}
Connections == 1 .. MaxConn

\* Power requests that overlap, requests behind one that raises
\* or waits.
Asked == {<<"on", "off">>, <<"call", "other", "off">>, <<"sim">>}
=============================================================================
