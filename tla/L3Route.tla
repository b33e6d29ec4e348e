------------------------------- MODULE L3Route --------------------------------
(***************************************************************************)
(* src/routing/pogls_l3_intersection.h: l3_process, the router that        *)
(* PipelineWire asks first.  An address is scattered to a point (a, b),    *)
(* which gives a world; the rhythm of the crossings between worlds and a   *)
(* guard on runs of GHOST give the route.                                  *)
(*                                                                         *)
(* The arithmetic of the scatter, of the circle test and of the density is *)
(* kept, at a Scale that need not be the code's 2^20.  The three signals   *)
(* that make world A confident (PHI step, local step, low relation score)  *)
(* are functions of the last three addresses and are one Boolean input     *)
(* here; prev_hilbert and the statistics are not read by anything.         *)
(***************************************************************************)
EXTENDS Integers

CONSTANTS
  Scale,       \* L3_PHI_SCALE
  PhiUp,       \* POGLS_PHI_UP, the golden ratio times Scale
  PhiDown,     \* POGLS_PHI_DOWN, its inverse times Scale
  TwinEps,     \* L3_TWIN_EPS
  StreakMax,   \* L3_GHOST_STREAK_MAX
  GapMax,      \* the 255 where steps_since_flip saturates
  Word,        \* 2^32
  Addresses,   \* addresses routed
  MaxOps       \* bound: calls in a behaviour

ASSUME L3Assumption ==
  /\ Scale \in Nat \ {0} /\ PhiUp \in Nat /\ PhiDown \in Nat /\ TwinEps \in Nat
  /\ StreakMax \in Nat /\ GapMax \in Nat /\ Word \in Nat \ {0}
  /\ Addresses \subseteq Nat /\ MaxOps \in Nat

VARIABLES
  prev_world, anchor_valid,
  flip_count, structured_flip, random_flip, steps_since_flip,
  ghost_streak, total_ops,
  route,       \* the answer of the last call, "NONE" before the first
  ghost_run    \* history: GHOST answers in a row

flips == << flip_count, structured_flip, random_flip, steps_since_flip >>
vars  == << prev_world, anchor_valid, flips, ghost_streak, total_ops, route, ghost_run >>

Worlds == {"A", "B", "TWIN", "INVALID"}
Routes == {"MAIN", "GHOST", "SHADOW"}

TypeOK ==
  /\ prev_world \in Worlds /\ anchor_valid \in BOOLEAN
  /\ flip_count \in Nat /\ structured_flip \in Nat /\ random_flip \in Nat
  /\ steps_since_flip \in 0 .. GapMax
  /\ ghost_streak \in 0 .. StreakMax
  /\ total_ops \in Nat /\ route \in Routes \cup {"NONE"} /\ ghost_run \in Nat

\* l3_init: memset, and GEO_A is 0.
Init ==
  /\ prev_world = "A" /\ anchor_valid = FALSE
  /\ flip_count = 0 /\ structured_flip = 0 /\ random_flip = 0 /\ steps_since_flip = 0
  /\ ghost_streak = 0 /\ total_ops = 0
  /\ route = "NONE" /\ ghost_run = 0

-----------------------------------------------------------------------------
\* l3_scatter, one coordinate.
Scatter(addr, phi) == (((addr % Scale) * phi) \div Scale) % Scale

\* (a*a + b*b) >> 41, which is 2 * 20 + 1, is not zero.
OutsideCircle(a, b) == (a * a + b * b) \div (2 * Scale * Scale) > 0

World(a, b) ==
  IF (IF a >= b THEN a - b ELSE b - a) < TwinEps THEN "TWIN"
  ELSE IF a > b THEN "A" ELSE "B"

\* A crossing between A and B since the call before.
Flips(world) ==
  /\ anchor_valid
  /\ {prev_world, world} = {"A", "B"}

\* Crossings at most two calls apart are rhythmic.
CountFlip(world) ==
  IF Flips(world)
  THEN /\ flip_count' = flip_count + 1
       /\ steps_since_flip' = 0
       /\ IF steps_since_flip <= 2
          THEN structured_flip' = structured_flip + 1 /\ UNCHANGED random_flip
          ELSE random_flip' = random_flip + 1 /\ UNCHANGED structured_flip
  ELSE /\ steps_since_flip' = IF steps_since_flip < GapMax
                              THEN steps_since_flip + 1 ELSE steps_since_flip
       /\ UNCHANGED << flip_count, structured_flip, random_flip >>

\* More than 55 percent of the calls crossed, and rhythmically: on uint32_t, where
\* the product wraps and the cast of the 64-bit total_ops can give 0.
Divisor(ops) == (IF ops > 0 THEN ops ELSE 1) % Word

Structured ==
  /\ ((flip_count' * 100) % Word) \div Divisor(total_ops') > 55
  /\ structured_flip' > random_flip'

\* Route by world; signal is world A's confidence.
Geometry(world, signal) ==
  IF \/ world = "TWIN"
     \/ Structured
     \/ world = "A" /\ signal
  THEN "MAIN" ELSE "GHOST"

GuardStreak_late(r) ==
  IF r = "GHOST" /\ ghost_streak <= StreakMax
  THEN route' = "GHOST" /\ ghost_streak' = ghost_streak + 1
  ELSE route' = "MAIN" /\ ghost_streak' = 0

\* Anti-drift: the GHOST after StreakMax of them becomes MAIN.
GuardStreak(r) ==
  IF r = "GHOST" /\ ghost_streak < StreakMax
  THEN route' = "GHOST" /\ ghost_streak' = ghost_streak + 1
  ELSE route' = "MAIN" /\ ghost_streak' = 0

Invalid ==
  /\ route' = "SHADOW" /\ prev_world' = "INVALID" /\ ghost_streak' = 0
  /\ UNCHANGED << anchor_valid, flips >>

Valid(a, b, signal) ==
  /\ CountFlip(World(a, b))
  /\ prev_world' = World(a, b)
  /\ GuardStreak(Geometry(World(a, b), signal))
  /\ anchor_valid' = TRUE

\* l3_process; a call that would divide by zero is the end of the process.
Process(addr, signal) ==
  LET a == Scatter(addr, PhiUp)
      b == Scatter(addr, PhiDown)
  IN  /\ total_ops < MaxOps
      /\ total_ops' = total_ops + 1
      /\ IF OutsideCircle(a, b) THEN Invalid
         ELSE Divisor(total_ops') # 0 /\ Valid(a, b, signal)
      /\ ghost_run' = IF route' = "GHOST" THEN ghost_run + 1 ELSE 0

Next == \E addr \in Addresses, signal \in BOOLEAN : Process(addr, signal)

Spec == Init /\ [][Next]_vars

-----------------------------------------------------------------------------
\* The unit circle test of line 186 cannot fail: both coordinates are below
\* Scale, so that a*a + b*b is below 2*Scale*Scale.  No address is GEO_INVALID,
\* although tests/test_wire_snapshot.c line 50 feeds addresses "that will fail
\* unit circle", and with it no operation of the pipeline reaches the detach
\* lane or is an anomaly for the audit.
NeverShadow == route # "SHADOW" /\ prev_world # "INVALID"

\* "anti-drift: streak > 8 -> MAIN" (line 63): never more than StreakMax GHOST
\* answers in a row.
GhostRunBounded == ghost_run <= StreakMax
=============================================================================
