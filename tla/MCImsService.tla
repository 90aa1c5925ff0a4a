---------------------------- MODULE MCImsService ----------------------------
(* TLC instances of ImsService. *)
EXTENDS ImsService

Scene(k, e, p, c, s, f, d) ==
  [kind |-> k, epdg |-> e, pcscf |-> p, calls |-> c, starts |-> s,
   faults |-> f, drops |-> d]

\* The service with and without ePDG and P-CSCF, restarted once; a session of
\* three calls; a tunnel of three calls.  Faults come in every combination.
AllScenes ==
  {Scene("service", TRUE, FALSE, 0, 1, 1, 1),
   Scene("service", FALSE, TRUE, 0, 1, 2, 0),
   Scene("session", FALSE, TRUE, 3, 0, 2, 0),
   Scene("tunnel", TRUE, FALSE, 3, 0, 1, 1)}
=============================================================================
