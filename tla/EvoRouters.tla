------------------------------ MODULE EvoRouters ------------------------------
(***************************************************************************)
(* The lane routers src/pogls_evolution_core.h (version 1), pogls_evo_v2.h *)
(* and pogls_evo_v3.h, the one PipelineWire asks.  Each computes a lane    *)
(* from the address and keeps it in a cache by a hash of the address:      *)
(* version 1 in a slot that the last address takes, version 2 in a slot    *)
(* kept while it is used, version 3 in the two ways of a set.              *)
(*                                                                         *)
(* An address is its two 32-bit halves, the lower below 2^31.  The hash of *)
(* the ticks that gives two bits of version 1's lane is any two bits.      *)
(* Left out is what only statistics see: version 2's anchors and temporal  *)
(* drift, and of version 3 the hint, the threshold, the drift, the energy  *)
(* pool, the phase and the loop detection, which change a value that no    *)
(* later line reads.                                                       *)
(***************************************************************************)
EXTENDS Integers, Sequences, FiniteSets

CONSTANTS
  EvoAddresses, \* addresses routed, << upper, lower >>
  XorBits(_, _),    \* exclusive or, bit by bit
  Bucket(_),    \* the slot or set of a key
  Buckets,
  FibSeed,      \* what evo_init is given
  FibLimit,     \* 2^31
  AgeMax,       \* EVO2_GHOST_AGE_MAX
  EpochMod,     \* 2^16: epochs and ages are uint16_t
  AvgLoad,      \* EV3_AVG_LOAD
  LoadMod,      \* 2^16: loads are uint16_t
  Dnas,         \* 0 .. 3, the two bits of a hash of the ticks
  MaxEvoOps     \* bound: calls of each version

ASSUME EvoAssumption ==
  /\ FibSeed \in Nat /\ FibLimit \in Nat \ {0} /\ AgeMax \in Nat
  /\ EpochMod \in Nat \ {0} /\ AvgLoad \in Nat /\ LoadMod \in Nat \ {0}
  /\ Dnas \subseteq 0 .. 3 /\ MaxEvoOps \in [1 .. 3 -> Nat]
  /\ \A addr \in EvoAddresses : \A high \in {0, addr[1]} :
       Bucket(<< high, XorBits(addr[2], addr[1]) >>) \in Buckets

VARIABLES
  version,     \* which of the three
  cache,       \* per bucket and way: key, val, epoch
  clock,       \* versions 2 and 3: calls of the store
  fib,         \* version 1: << f0, f1 >>
  lane_load,   \* version 3
  evo_ops,
  \* History.
  computed,    \* set of << key, result >>, the last computed of each key
  used,        \* set of << key, clock >>, the last use of each cached key
  asked        \* key and answer of the last call

evo == << version, cache, clock, fib, lane_load, evo_ops, computed, used, asked >>

Lanes == 54
NoKey == << 0, 0 >>
Ways  == IF version = 3 THEN {0, 1} ELSE {0}

\* memset of the stores.
Empty == [key |-> NoKey, val |-> << 0, 0 >>, epoch |-> 0]

\* fib_init; evo_init takes 162 for a seed of 0.
FibInit ==
  LET s == IF FibSeed = 0 THEN 162 ELSE IF FibSeed > 162 THEN (FibSeed % 162) + 1 ELSE FibSeed
  IN  << s, s \div 2 >>

EvoInit ==
  /\ version \in 1 .. 3
  /\ cache = [b \in Buckets |-> [w \in Ways |-> Empty]]
  /\ clock = 0 /\ fib = FibInit
  /\ lane_load = [l \in 0 .. (Lanes - 1) |-> 0]
  /\ evo_ops = 0 /\ computed = {} /\ used = {} /\ asked = << >>

-----------------------------------------------------------------------------
\* The fold of an address.  Version 1 keeps 64 bits of it and so tells all addresses
\* apart; versions 2 and 3 keep 32, whose rotation by 13 is one-to-one.
Folded(addr) == XorBits(addr[2], addr[1])
Key(addr)    == << IF version = 1 THEN addr[1] ELSE 0, Folded(addr) >>

\* addr % 54; 2^32 % 54 is 22.
AddrLane(addr) == ((addr[1] % Lanes) * 22 + addr[2]) % Lanes

\* Iterations until the point leaves the circle of radius 2, at most 32, in fixed
\* point with 12 bits (mandel_fp12, mandel_v2, _ev3_mandel).
Mandel(cx, cy) ==
  LET Sq(v)  == (v * v) \div 4096
      Out(z) == Sq(z[1]) + Sq(z[2]) > 4 * 4096
      z[i \in 0 .. 32] ==
        IF i = 0 THEN << 0, 0 >>
        ELSE LET p == z[i - 1]
             IN  IF Out(p) THEN p
                 ELSE << Sq(p[1]) - Sq(p[2]) + cx, ((p[1] * p[2]) \div 2048) + cy >>
  IN  Cardinality({i \in 0 .. 31 : ~Out(z[i])})

\* Version 1 maps 12 bits of the address to [-2, 2), and calls the point stable,
\* chaotic or on the boundary.
State1 == [addr \in EvoAddresses |->
  LET n == Mandel((addr[2] % 4096) * 4 - 8192, ((addr[2] \div 4096) % 4096) * 4 - 8192)
  IN  IF n = 32 THEN "stable" ELSE IF n < 4 THEN "chaotic" ELSE "boundary"]

\* Versions 2 and 3 map them to [-0.75, 0.75), the one rounding down, the other to 0
\* (map_to_mandel_v2 and mandel_v2, _ev3_map and _ev3_mandel); 1 is stable.
Axis(n)        == (n % 4096) - 2048
Stable(cx, cy) == IF Mandel(cx, cy) = 32 THEN 1 ELSE 0

Type2 == [addr \in EvoAddresses |->
  Stable((Axis(addr[2]) * 3) \div 2, (Axis(addr[2] \div 4096) * 3) \div 2)]

Type3 == [addr \in EvoAddresses |->
  LET Half(n) == IF n < 0 THEN -((-n) \div 2) ELSE n \div 2
  IN  Stable(Half(Axis(addr[2]) * 3), Half(Axis(addr[2] \div 4096) * 3))]

-----------------------------------------------------------------------------
Wrapped(n) == ((n + FibLimit) % (2 * FibLimit)) - FibLimit

\* fib_next.  The sum of int32_t that overflows is undefined: the guard halves both
\* registers if the build wraps and keeps the guard, and is gone if it does not.
FibNext ==
  LET sum == fib[1] + fib[2]
  IN  IF sum = Wrapped(sum) THEN {<< fib[2], sum >>}
      ELSE { << fib[2] \div 2, (fib[1] \div 2) + (fib[2] \div 2) >>,
             << fib[2], Wrapped(sum) >> }

\* evo_feedback
Feedback(val, state) ==
  CASE state = "stable" -> val \div 2 [] state = "chaotic" -> Wrapped(2 * val) [] OTHER -> val

\* fib_boundary, whose seed is always 162.
FibBoundary(val) ==
  LET FIB     == << 1, 2, 3, 5, 8, 13, 21, 34, 55 >>
      abs_val == IF val < 0 THEN -val ELSE val
      below   == {i \in 1 .. 8 : abs_val >= (FIB[i + 1] * 162) \div 10}
  IN  Cardinality(below)

\* Steps 6 and 7 of evo_process.
Lane1(addr, val, dna) == (dna * 13 + FibBoundary(val) * 7 + AddrLane(addr)) % Lanes

\* fib_init_v2 with fib_step_v2, _ev3_fib: the sum of the seed and its half, neither
\* of them 0.
FibSum(seed) ==
  LET s == IF seed % 128 = 0 THEN 1 ELSE seed % 128
  IN  s + (IF s = 1 THEN 1 ELSE s \div 2)

\* The feedback, less than version 1's.
Damped(val, type) == IF type = 0 THEN val + (val \div 2) ELSE val - (val \div 4)

Lane2 == [addr \in EvoAddresses |->
  LET dna == (Folded(addr) \div 2^19) % 4
      val == Damped(FibSum(addr[2]), Type2[addr])
  IN  (AddrLane(addr) + dna * 13 + (val % Lanes) + Type2[addr] * 7) % Lanes]

\* The low six bits of the mix; rotated by 13, bit 19 of the fold comes first.
Lane3 == [addr \in EvoAddresses |->
  LET bits(shift) == (Folded(addr) \div 2^shift) % 64
      val == Damped(FibSum(addr[2]), Type3[addr])
      raw == XorBits(XorBits(XorBits(bits(19), bits(26)), (val * 4) % 64), Type3[addr])
  IN  IF raw >= Lanes THEN raw - Lanes ELSE raw]

-----------------------------------------------------------------------------
Age(e) == (clock - e.epoch) % EpochMod

Hits_firstWay(key) == {w \in {0} : key # NoKey /\ cache[Bucket(key)][w].key = key}

\* ghost_slab_lookup, ghost_lookup_v2, ghost_v3_lookup: key 0 is an empty entry.
Hits(key) == {w \in Ways : key # NoKey /\ cache[Bucket(key)][w].key = key}

Refreshed_never(e) == e

Refreshed(e) == IF version = 1 THEN e ELSE [e EXCEPT !.epoch = clock % EpochMod]

\* Version 3 takes the first empty way, else the older, else the second.
Victim ==
  [b \in Buckets |->
     IF version # 3 \/ cache[b][0].key = NoKey THEN 0
     ELSE IF cache[b][1].key = NoKey \/ Age(cache[b][0]) <= Age(cache[b][1]) THEN 1 ELSE 0]

\* Version 2 keeps a foreign entry that is not old.
Refused(key) ==
  LET e == cache[Bucket(key)][0]
  IN  version = 2 /\ e.key \notin {NoKey, key} /\ Age(e) <= AgeMax

\* ghost_slab_store, ghost_store_v2, ghost_v3_store
Store(key, val) ==
  LET b == Bucket(key)
  IN  /\ IF Refused(key) THEN UNCHANGED << cache, used >>
         ELSE /\ cache' = [cache EXCEPT ![b] = [@ EXCEPT ![Victim[b]] =
                             [key |-> key, val |-> val,
                              epoch |-> IF version = 1 THEN 0 ELSE clock % EpochMod]]]
              /\ used' = {u \in used : u[1] # key} \cup {<< key, clock >>}
      /\ clock' = IF version = 1 THEN clock ELSE clock + 1
      /\ computed' = {c \in computed : c[1] # key} \cup {<< key, val >>}
      /\ asked' = << key, val >>

\* The first half of the three process functions.
Cached(addr) ==
  LET key == Key(addr)
      w   == CHOOSE w \in Hits(key) : \A v \in Hits(key) : w <= v
      e   == cache[Bucket(key)][w]
  IN  /\ Hits(key) # {}
      /\ cache' = [cache EXCEPT ![Bucket(key)] = [@ EXCEPT ![w] = Refreshed(e)]]
      /\ used' = {u \in used : u[1] # key} \cup {<< key, clock >>}
      /\ asked' = << key, e.val >>
      /\ UNCHANGED << clock, fib, lane_load, computed >>

Evo1Process(addr) ==
  /\ version = 1 /\ Hits(Key(addr)) = {}
  /\ \E f \in FibNext, dna \in Dnas :
       /\ fib' = f
       /\ Store(Key(addr), << Lane1(addr, Feedback(f[2], State1[addr]), dna), 0 >>)
  /\ UNCHANGED lane_load

Evo2Process(addr) ==
  /\ version = 2 /\ Hits(Key(addr)) = {}
  /\ Store(Key(addr), << Lane2[addr], Type2[addr] >>)
  /\ UNCHANGED << fib, lane_load >>

\* Lane pressure: the lane after a loaded one, be it loaded too.
Evo3Process(addr) ==
  LET lane   == Lane3[addr]
      beside == (lane + 1) % Lanes
      loaded == (lane_load[lane] + 1) % LoadMod
  IN  /\ version = 3 /\ Hits(Key(addr)) = {}
      /\ \/ /\ loaded <= AvgLoad
            /\ lane_load' = [lane_load EXCEPT ![lane] = loaded]
            /\ Store(Key(addr), << lane, Type3[addr] >>)
         \/ /\ loaded > AvgLoad
            /\ lane_load' = [lane_load EXCEPT ![lane] = loaded,
                                              ![beside] = (lane_load[beside] + 1) % LoadMod]
            /\ Store(Key(addr), << beside, Type3[addr] >>)
      /\ UNCHANGED fib

EvoNext ==
  /\ evo_ops < MaxEvoOps[version] /\ evo_ops' = evo_ops + 1 /\ UNCHANGED version
  /\ \E addr \in EvoAddresses :
       \/ Cached(addr) \/ Evo1Process(addr) \/ Evo2Process(addr) \/ Evo3Process(addr)

EvoSpec == EvoInit /\ [][EvoNext]_evo

-----------------------------------------------------------------------------
\* A cached answer is the one last computed for its key, and no key is in a set
\* twice: between two computations an address keeps its lane, although version 1
\* would compute another each time and version 3 moves lanes under load.  (Not for
\* its address: versions 2 and 3 give an address the lane of another one that folds
\* to the same 32 bits.)
LanesStick ==
  /\ asked = << >> \/ asked \in computed
  /\ \A b \in Buckets, w \in Ways :
       LET e == cache[b][w]
       IN  e.key # NoKey =>
             /\ << e.key, e.val >> \in computed
             /\ \A v \in Ways \ {w} : cache[b][v].key # e.key

\* Stores since the last use of a cached key.
Idle(key) == LET last == {u[2] : u \in {v \in used : v[1] = key}}
             IN  clock - (CHOOSE c \in last : \A d \in last : d <= c)

\* Which entries a step may lose: version 2 only one unused for more than AgeMax
\* stores, version 3 only one whose other way has been idle for no more stores than
\* it, or for 2^16 of them or more, which make it look young.  Of a tie either goes:
\* version 3 counts stores, so that a use since the last store ties with the entry
\* stored there.  Version 1, with one way and no ages, may lose any.
LosesTheIdle ==
  \A b \in Buckets, w \in Ways :
    LET key == cache[b][w].key
    IN  key # NoKey /\ cache'[b][w].key # key =>
          /\ version = 2 => Idle(key) > AgeMax
          /\ \A v \in Ways \ {w} :
               \/ Idle(key) >= Idle(cache[b][v].key)
               \/ Idle(cache[b][v].key) >= EpochMod

EvictsTheIdle == [][LosesTheIdle]_evo
=============================================================================
