--------------------------- MODULE MCSnapshotAudit ---------------------------
(***************************************************************************)
(* Two tiles, one-bit digests: clean entries, an anomaly, and an entry     *)
(* whose only flag (twin window) is not one of the three anomaly reasons.  *)
(***************************************************************************)
EXTENDS SnapshotAudit

MCEntries ==
  {[tile |-> 1, reason |-> {}, digest |-> Bits],
   [tile |-> 2, reason |-> {}, digest |-> {}],
   [tile |-> 1, reason |-> {"GHOST_DRIFT"}, digest |-> Bits],
   [tile |-> 2, reason |-> {"TWIN_WINDOW"}, digest |-> Bits]}
=============================================================================
