------------------------------- MODULE ReflexOps -------------------------------
(***************************************************************************)
(* src/pogls_mesh_entry.h, the functions: how a flushed anomaly is         *)
(* classified, and what the ReflexBias table, a signed bias per zone of    *)
(* addresses, makes of it.  A zone decays by epochs, but is decayed only   *)
(* when it is next touched, for the epochs missed since, by at most        *)
(* DecayCap steps.  Statistics and an entry's fingerprint are left out.    *)
(***************************************************************************)
EXTENDS Integers

CONSTANTS
  Zones,       \* REFLEX_BUCKETS
  DecayDiv,    \* 2^REFLEX_DECAY_SHIFT
  DecayCap,    \* the 16 steps a catch-up makes at most
  EpochMod,    \* 2^8: last_decay is a uint8_t
  Interval,    \* REFLEX_DECAY_INTERVAL
  ReflexMin, ReflexMax,
  Demote       \* REFLEX_DEMOTE_THRESHOLD

\* The threshold is beyond the hardest penalty, BURST's 3.
ASSUME ReflexAssumption ==
  /\ DecayDiv \in Nat /\ DecayDiv >= 2
  /\ DecayCap \in Nat \ {0} /\ EpochMod \in Nat /\ EpochMod > DecayCap
  /\ Interval \in Nat \ {0}
  /\ ReflexMin \in Int /\ ReflexMax \in Nat /\ Demote \in Int
  /\ ReflexMin <= Demote /\ Demote < -3

Types == {"GHOST", "BURST", "SEQ", "ANOMALY"}

Bias   == ReflexMin .. ReflexMax
Epochs == 0 .. (EpochMod - 1)

-----------------------------------------------------------------------------
\* What mesh_classify_type and is_mesh_anomaly read of a DetachEntry: three of its
\* reason flags, whether phase18 is below 3, whether it was routed GHOST.
Reasons == {"GHOST_DRIFT", "GEO_INVALID", "UNIT_CIRCLE"}

IsMeshAnomaly(e) == e.reason # {}

ClassifiedType(e) ==
  IF "GHOST_DRIFT" \in e.reason THEN "SEQ"
  ELSE IF "GEO_INVALID" \in e.reason THEN (IF e.early THEN "BURST" ELSE "ANOMALY")
  ELSE IF e.ghost THEN "GHOST" ELSE "ANOMALY"

-----------------------------------------------------------------------------
\* The shift without its sign.
Decayed_unsigned(b) == b - ((b % 256) \div DecayDiv)

\* One step of decay, b - (b >> 3): the shift rounds down, so that a negative bias
\* comes back to 0 and a small positive one stays.
Decayed(b) == b - (b \div DecayDiv)

\* Epochs since a zone's last decay, in uint8_t arithmetic; the steps made for them.
Missed(now, last) == (now - last) % EpochMod

Steps_oneShort(missed) == IF missed < DecayCap THEN missed ELSE DecayCap - 1

Steps(missed) == IF missed < DecayCap THEN missed ELSE DecayCap

Clamped(b) == IF b > ReflexMax THEN ReflexMax ELSE IF b < ReflexMin THEN ReflexMin ELSE b

\* reflex_update's table: a SEQ in a zone that is not deeply bad is a reward.
Feedback(type, b) ==
  CASE type = "BURST"   -> b - 3
    [] type = "ANOMALY" -> b - 2
    [] type = "GHOST"   -> b - 1
    [] type = "SEQ"     -> IF b > -2 THEN b + 1 ELSE b - 1
    [] OTHER            -> b + 1
=============================================================================
