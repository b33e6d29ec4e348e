------------------------------ MODULE DiamondOps -------------------------------
(***************************************************************************)
(* src/pogls_diamond_layer.h, the functions: the DiamondLayer, a cell per  *)
(* Morton id with a bias, a heat, a count and the type of its last event,  *)
(* and the signal it gives the router.  The id is a pure function of the   *)
(* entry and an input.                                                     *)
(***************************************************************************)
EXTENDS Integers

CONSTANTS
  DiamondIds,  \* DIAMOND_COUNT
  BiasCap,     \* DIAMOND_BIAS_MAX
  BiasDiv,     \* 2^DIAMOND_BIAS_DECAY_SHIFT
  HeatDiv,     \* 2^DIAMOND_HEAT_DECAY_SHIFT
  HeatBoost,   \* DIAMOND_HEAT_BOOST_THRESH
  ColdStart,   \* DIAMOND_COLD_START_THRESH
  CountMax     \* the 65535 where count saturates

ASSUME DiamondAssumption ==
  /\ BiasCap \in Nat \ {0} /\ BiasDiv \in Nat /\ BiasDiv >= 2
  /\ HeatDiv \in Nat /\ HeatDiv >= 2
  /\ HeatBoost \in Nat /\ ColdStart \in Nat \ {0} /\ CountMax \in Nat /\ CountMax >= ColdStart

\* last_type is 0xFF until the first event.
Unset == "UNSET"

DiamondCell == [bias : (-BiasCap) .. BiasCap, heat : 0 .. 255, count : 0 .. CountMax,
                last : {"GHOST", "BURST", "SEQ", "ANOMALY", Unset}]

DiamondLayer == [DiamondIds -> DiamondCell]

DiamondInit == [c \in DiamondIds |-> [bias |-> 0, heat |-> 0, count |-> 0, last |-> Unset]]

-----------------------------------------------------------------------------
BiasDelta(type) ==
  CASE type = "SEQ" -> 2 [] type = "BURST" -> 1 [] type = "GHOST" -> -2
    [] type = "ANOMALY" -> -1

\* The same type as last time adds one, whatever the type.
Pushed(d, type) == d.bias + BiasDelta(type) + (IF d.last = type THEN 1 ELSE 0)

Capped(b) == IF b > BiasCap THEN BiasCap ELSE IF b < -BiasCap THEN -BiasCap ELSE b

Hotter(heat) == IF heat < 255 THEN heat + 1 ELSE heat

\* diamond_update of one cell.
CellUpdated(d, type) ==
  LET b == Pushed(d, type)
      h == Hotter(d.heat)
  IN  [bias |-> Capped(b - (b \div BiasDiv)), heat |-> h - (h \div HeatDiv),
       count |-> IF d.count < CountMax THEN d.count + 1 ELSE d.count, last |-> type]

LayerUpdated(layer, id, type) == [layer EXCEPT ![id] = CellUpdated(@, type)]

\* diamond_score: nothing before ColdStart events.
Warm(d) == d.count >= ColdStart

Score(d) == IF Warm(d) THEN d.bias ELSE 0

\* diamond_heat_boost and diamond_route_signal.
HeatBoosts(d) == IF d.heat >= HeatBoost /\ d.bias >= 0 THEN 1 ELSE 0

RouteSignal(d) == Score(d) + HeatBoosts(d)

\* diamond_should_demote
ScoreDemotes(d) == Score(d) <= -1
=============================================================================
