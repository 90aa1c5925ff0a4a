--------------------------- MODULE MCRspDownload ---------------------------
(* Small instances of RspDownload for TLC. *)
EXTENDS RspDownload

\* Two downloads at once with faults, or with a restart; a third command while
\* they run.
MCScenes ==
  {[commands |-> 2, faults |-> 2, restarts |-> 0],
   [commands |-> 2, faults |-> 1, restarts |-> 1],
   [commands |-> 3, faults |-> 0, restarts |-> 0]}
=============================================================================
