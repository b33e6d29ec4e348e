--------------------------- MODULE MCDetachObservers ---------------------------
\* Two addresses in zones, cells and places of their own.  Entries of every type
\* come to the first, and one that is no anomaly; the second is struck by
\* anomalies only.
EXTENDS DetachObservers

LowestBias == -5
Threshold  == -4

Busy(reason, early, ghost) ==
  [reason |-> reason, early |-> early, ghost |-> ghost, zone |-> 1, cell |-> 1, place |-> 1]

FewEntries ==
  { Busy({"GHOST_DRIFT"}, FALSE, TRUE),
    Busy({"GEO_INVALID"}, TRUE, FALSE),
    Busy({"UNIT_CIRCLE"}, FALSE, TRUE),
    Busy({}, FALSE, TRUE),
    [reason |-> {"GEO_INVALID"}, early |-> FALSE, ghost |-> FALSE,
     zone |-> 2, cell |-> 2, place |-> 2] }

\* Two threads at one table: bursts and lesser anomalies in both zones, and nothing
\* for layer and honeycomb to tell apart.
RacingEntries ==
  { [reason |-> {"GEO_INVALID"}, early |-> burst, ghost |-> FALSE,
     zone |-> z, cell |-> 1, place |-> 1] : burst \in BOOLEAN, z \in Zones }
=============================================================================
